---- MODULE Spec2Model ----
(***************************************************************************)
(* A model of BotKit's rich-text tree (packages/botkit/src/text.ts):       *)
(* TemplatedText's paragraph engine, MentionText's memoized resolution,    *)
(* MarkdownText's discovery/resolution passes, the inline wrappers, and    *)
(* HashtagText, CustomEmojiText and the values of a TemplatedText.         *)
(*                                                                         *)
(* A JavaScript string is a sequence of one-character strings.  Rendered   *)
(* HTML is a sequence of atoms: an atom is a markup token ("<p>", "<br>",  *)
(* ...) or one character of html-entities' encode() output ("&lt;" is the  *)
(* atom encode() produces for "<").                                        *)
(***************************************************************************)
EXTENDS Integers, Sequences, FiniteSets, TLC

\* Longest template (all literal segments of a TemplatedText together).
MaxLen == 4
\* Most interpolated values of a TemplatedText.
MaxValues == 1

\* Most getHtml/getTags calls in progress on the tree at once.
MaxCalls == 2
\* Most getHtml/getTags calls made on the tree altogether.
MaxStarts == 3
\* Most tokens of a markdown source.
MaxTokens == 2

\* The characters literal segments are drawn from: text, a character
\* encode() escapes, horizontal whitespace, and the two line-break characters.
Char == {"a", "<", " ", "\n", "\r"}

VARIABLES
    \* TemplatedText
    strings,      \* #strings: the literal segments
    values,       \* #values: the type ("inline" | "block") of each child
    i,            \* getHtml's loop index over #strings
    paraState,    \* getHtml's paraState
    html,         \* the items getHtml has yielded so far
    tpc,          \* where getHtml is: "strings" | "value" | "end" | "done"
    \* The tree the calls are made on
    root,         \* "mention" | "markdown" | "tree" (text`${mention}${markdown}`)
                  \* | "strong" | "em" | "code" | "link" (around a mention)
                  \* | "none" (the constructor threw)
    linkHref,     \* LinkText: the href argument and #href
    \* MentionText
    label,        \* #label: [deferred, s]: a string, or a resolver
    actor,        \* #actor: [deferred, own, o]: an Actor, or a resolver
    cachedObject, \* #cachedObject (Null: unset)
    labelPromise, \* #labelPromise
    actorPromise, \* #actorPromise
    actorStage,   \* where the actor resolver is suspended
    \* MarkdownText
    content,      \* #content: a sequence of tokens
    options,      \* the options the node was constructed with
    mentions,     \* #mentions
    hashtags,     \* #hashtags
    actors,       \* #actors
    \* The callers and the session
    calls,        \* the getHtml/getTags calls in progress, one per slot
    sessionCalls, \* how often each collaborator of the session was called
    resolverCalls,\* how often each deferred resolver of the mention was invoked
    started,      \* the calls made so far
    ran,          \* whether a getHtml or getTags call has been made
    mdFinished,   \* whether a run of #getMentionedActors has ended
    firstDone,    \* the objects the first completed call used
    lateCalls,    \* collaborator calls made by calls begun after firstDone
    \* A hashtag, a custom emoji, or a TemplatedText and its values
    node,         \* the node: its kind and its private fields
    emojiCalls,   \* how often the node's deferred emoji was evaluated
    results,      \* what the getHtml/getTags calls on the node yielded
    \* A SqliteRepository and the operations called on it
    db,           \* the tables behind the repository's one connection
    transaction,  \* the connection's open transaction and what it rolls back to
    running,      \* the repository operations in progress, one per task
    updated,      \* the updaters of the updateMessage calls that returned true
    invoked       \* the repository operations called so far

textVars == <<strings, values, i, paraState, html, tpc>>

mentionVars ==
    <<label, actor, cachedObject, labelPromise, actorPromise, actorStage>>

markdownVars == <<content, options, mentions, hashtags, actors>>

callVars ==
    <<root, linkHref, calls, sessionCalls, resolverCalls, started, ran,
      mdFinished, firstDone, lateCalls>>

nodeVars == <<node, emojiCalls, results>>

repoVars == <<db, transaction, running, updated, invoked>>

vars == <<textVars, mentionVars, markdownVars, callVars, nodeVars, repoVars>>

----------------------------------------------------------------------------
(* Strings *)

StringsUpTo(n) == UNION {[1..k -> Char] : k \in 0..n}

IsSpace(c) == c \in {" ", "\t", "\n", "\r"}

\* String.prototype.trim() === "": only white space.
IsBlank(s) == \A k \in 1..Len(s) : IsSpace(s[k])

\* A character yielded as it is.
EncodeCharRaw(c) == c

\* encode() of html-entities (mode specialChars): one character.
EncodeChar(c) ==
    CASE c = "<" -> "&lt;"
      [] c = ">" -> "&gt;"
      [] c = "&" -> "&amp;"
      [] c = "\"" -> "&quot;"
      [] c = "'" -> "&apos;"
      [] OTHER -> c

Encode(s) == [k \in 1..Len(s) |-> EncodeChar(s[k])]

\* String.prototype.split("\n"): the pieces between line feeds.
RECURSIVE SplitLines(_)
SplitLines(s) ==
    IF \A k \in 1..Len(s) : s[k] # "\n" THEN <<s>>
    ELSE LET n == CHOOSE k \in 1..Len(s) :
                      s[k] = "\n" /\ \A j \in 1..(k - 1) : s[j] # "\n"
         IN  <<SubSeq(s, 1, n - 1)>> \o SplitLines(SubSeq(s, n + 1, Len(s)))

----------------------------------------------------------------------------
(* The regular expression /([ \t]*\r?\n){2,}/g of TemplatedText.getHtml *)

\* The position after the longest run of " " and "\t" that starts at p.
RECURSIVE SkipBlanks(_, _)
SkipBlanks(s, p) ==
    IF p <= Len(s) /\ s[p] \in {" ", "\t"} THEN SkipBlanks(s, p + 1) ELSE p

\* One iteration of the group, [ \t]*\r?\n, at p: the position after it,
\* or 0 when it does not match there.
MatchGroup(s, p) ==
    LET q == SkipBlanks(s, p)
    IN  IF q + 1 <= Len(s) /\ s[q] = "\r" /\ s[q + 1] = "\n" THEN q + 2
        ELSE IF q <= Len(s) /\ s[q] = "\n" THEN q + 1
        ELSE 0

\* The greedy repetition from p after n iterations, the last of which began
\* at g: [end |-> position after the match, grp |-> start of the last
\* iteration (the captured group)], end = 0 when fewer than two match.
RECURSIVE MatchRep(_, _, _, _)
MatchRep(s, p, n, g) ==
    LET e == MatchGroup(s, p)
    IN  IF e = 0
        THEN IF n >= 2 THEN [end |-> p, grp |-> g] ELSE [end |-> 0, grp |-> 0]
        ELSE MatchRep(s, e, n + 1, p)

MatchAt(s, p) == MatchRep(s, p, 0, 0)

\* String.prototype.split(regexp): p is the start of the current piece, q
\* the position the next match is tried at.  The text of the capturing
\* group is spliced into the result after each piece.
RECURSIVE SplitFrom(_, _, _)
SplitFrom(s, p, q) ==
    IF q > Len(s) THEN <<SubSeq(s, p, Len(s))>>
    ELSE LET m == MatchAt(s, q)
         IN  IF m.end = 0 THEN SplitFrom(s, p, q + 1)
             ELSE <<SubSeq(s, p, q - 1), SubSeq(s, m.grp, m.end - 1)>>
                  \o SplitFrom(s, m.end, m.end)

SplitParagraphs(s) == SplitFrom(s, 1, 1)

----------------------------------------------------------------------------
(* TemplatedText.getHtml *)

\* What getHtml yields: an atom, whether it is markup of this node ("tag"),
\* escaped literal text ("text") or the output of a child ("child"), and the
\* literal segment and the element of the split it was yielded for.
Item(a, k, seg, par) == [a |-> a, k |-> k, seg |-> seg, par |-> par]

TextItems(line, seg, par) ==
    [k \in 1..Len(line) |-> Item(EncodeChar(line[k]), "text", seg, par)]

\* The loop over the lines without the test that skips a blank line.
RECURSIVE RenderLinesNoSkip(_, _, _, _)
RenderLinesNoSkip(lines, seg, par, st) ==
    IF lines = <<>> THEN st
    ELSE LET line == Head(lines)
             open == st.l < 1 /\ st.para = "closed"
             o1 == IF open THEN <<Item("<p>", "tag", seg, par)>> ELSE <<>>
             o2 == IF st.l > 0 THEN <<Item("<br>", "tag", seg, par)>> ELSE <<>>
         IN  RenderLinesNoSkip(Tail(lines), seg, par,
                 [out |-> st.out \o o1 \o o2 \o TextItems(line, seg, par),
                  para |-> IF open THEN "opened" ELSE st.para,
                  l |-> st.l + 1])

\* The for-loop over the lines of one paragraph: st is [out, para, l].
RECURSIVE RenderLines(_, _, _, _)
RenderLines(lines, seg, par, st) ==
    IF lines = <<>> THEN st
    ELSE LET line == Head(lines)
         IN  IF IsBlank(line) THEN RenderLines(Tail(lines), seg, par, st)
             ELSE LET open == st.l < 1 /\ st.para = "closed"
                      o1 == IF open THEN <<Item("<p>", "tag", seg, par)>>
                            ELSE <<>>
                      o2 == IF st.l > 0 THEN <<Item("<br>", "tag", seg, par)>>
                            ELSE <<>>
                  IN  RenderLines(Tail(lines), seg, par,
                          [out |-> st.out \o o1 \o o2
                                     \o TextItems(line, seg, par),
                           para |-> IF open THEN "opened" ELSE st.para,
                           l |-> st.l + 1])

\* The loop over the elements of the split without the "</p>" before the
\* elements after the first.
RECURSIVE RenderParagraphsNoClose(_, _, _, _)
RenderParagraphsNoClose(paragraphs, seg, p, st) ==
    IF p >= Len(paragraphs) THEN st
    ELSE LET r == RenderLines(SplitLines(paragraphs[p + 1]), seg, p,
                      [out |-> st.out, para |-> st.para, l |-> 0])
         IN  RenderParagraphsNoClose(paragraphs, seg, p + 1,
                 [out |-> r.out, para |-> r.para])

\* The for-loop over the elements of the split: p counts them from 0,
\* st is [out, para].
RECURSIVE RenderParagraphs(_, _, _, _)
RenderParagraphs(paragraphs, seg, p, st) ==
    IF p >= Len(paragraphs) THEN st
    ELSE LET close == p > 0 /\ st.para = "opened"
             o1 == IF close THEN <<Item("</p>", "tag", seg, p)>> ELSE <<>>
             r == RenderLines(SplitLines(paragraphs[p + 1]), seg, p,
                      [out |-> st.out \o o1,
                       para |-> IF close THEN "closed" ELSE st.para,
                       l |-> 0])
         IN  RenderParagraphs(paragraphs, seg, p + 1,
                 [out |-> r.out, para |-> r.para])

\* The body of the outer loop up to the interpolated value.
RenderString(s, seg, para) ==
    RenderParagraphs(SplitParagraphs(s), seg, 0, [out |-> <<>>, para |-> para])

\* The output of a child, as one opaque item.
ChildItems(type, seg) == <<Item(type, "child", seg, 0)>>

\* The interpolated value, with a "<p>" for an inline child that leaves
\* paraState as it was.
RenderValueNoTrack(type, seg, para) ==
    IF type = "block" /\ para = "opened"
    THEN [out |-> <<Item("</p>", "tag", seg, 0)>> \o ChildItems(type, seg),
          para |-> "closed"]
    ELSE IF type = "inline" /\ para = "closed"
    THEN [out |-> <<Item("<p>", "tag", seg, 0)>> \o ChildItems(type, seg),
          para |-> para]
    ELSE [out |-> ChildItems(type, seg), para |-> para]

\* The interpolated value without the "</p>" before a block child and
\* without the "<p>" before an inline child.
RenderValueBare(type, seg, para) ==
    [out |-> ChildItems(type, seg), para |-> para]

\* The interpolated value after segment seg: close or open the paragraph,
\* then the child's own output.
RenderValue(type, seg, para) ==
    IF type = "block" /\ para = "opened"
    THEN [out |-> <<Item("</p>", "tag", seg, 0)>> \o ChildItems(type, seg),
          para |-> "closed"]
    ELSE IF type = "inline" /\ para = "closed"
    THEN [out |-> <<Item("<p>", "tag", seg, 0)>> \o ChildItems(type, seg),
          para |-> "opened"]
    ELSE [out |-> ChildItems(type, seg), para |-> para]


----------------------------------------------------------------------------
(* The session and the objects its collaborators return *)

ActorHandle == <<"@", "b">>
ActorId == <<"https://bot/id">>
Origin == <<"https://bot">>

\* The sessions callers hold: the one the trees are first used with, and one
\* of another bot (another handle, identifier and origin).
Sessions == {"S1", "S2"}
OriginOf(session) == IF session = "S1" THEN Origin ELSE <<"https://other">>

\* A vocabulary object as far as the text tree reads it: whether it is an
\* actor, its id, its url (<<>>: null), and whether the url is a Link.
Object(kind, id, url, link) ==
    [kind |-> kind, id |-> id, url |-> url, link |-> link]

Null == Object("null", <<>>, <<>>, FALSE)
BotActor == Object("actor", ActorId, <<"https://bot/@b">>, FALSE)
PersonFull == Object("actor", <<"https://h/id">>, <<"https://h/url">>, FALSE)
PersonUrlOnly == Object("actor", <<>>, <<"https://h/url">>, FALSE)
PersonBare == Object("actor", <<>>, <<>>, FALSE)
Note == Object("object", <<"https://h/note">>, <<>>, FALSE)

\* What lookupObject may answer for a reference to a remote object.
LookupResults == {Null, PersonFull, PersonUrlOnly, PersonBare, Note}

\* An actor whose url is a Link that has no href.
PersonNoHref == Object("actor", <<"https://h/id">>, <<>>, TRUE)

\* What lookupObject may answer for the handle or URL of a mention.
MentionResults == LookupResults \cup {PersonNoHref}

IsActor(o) == o.kind = "actor"

Promise(st, v) == [st |-> st, v |-> v]

Settled(p) == p.st \in {"fulfilled", "rejected"}

EmptyMap == [h \in {} |-> Null]

Unset == [set |-> FALSE, map |-> EmptyMap]

NoCalls ==
    [getActor |-> 0, getDocumentLoader |-> 0, getActorHandle |-> 0,
     mentionLookup |-> 0, lookupObject |-> EmptyMap]

\* A tag: new Mention({name, href}) or new Hashtag({name, href}).
Tag(type, name, href) == [type |-> type, name |-> name, href |-> href]

----------------------------------------------------------------------------
(* MentionText *)

\* The handle getActorHandle() answers for the mentioned remote actor.
RemoteHandle == <<"@", "m">>

\* The labels a mention is given in the model.
Labels == {<<"@", "a">>, <<"<", "a">>}

\* The mention() overloads: (label, Actor), (handle) and (label, URL),
\* (Actor), (URL).  own: the handle, id or URL is the session's own.
MentionForms ==
    {[label |-> [deferred |-> FALSE, own |-> FALSE, s |-> s],
      actor |-> [deferred |-> FALSE, own |-> FALSE, o |-> PersonFull]] :
        s \in Labels}
    \cup
    {[label |-> [deferred |-> FALSE, own |-> FALSE, s |-> s],
      actor |-> [deferred |-> TRUE, own |-> own, o |-> Null]] :
        s \in Labels, own \in BOOLEAN}
    \cup
    {[label |-> [deferred |-> TRUE, own |-> o = BotActor, s |-> <<>>],
      actor |-> [deferred |-> FALSE, own |-> o = BotActor, o |-> o]] :
        o \in {PersonFull, BotActor}}
    \cup
    {[label |-> [deferred |-> TRUE, own |-> own, s |-> <<>>],
      actor |-> [deferred |-> TRUE, own |-> own, o |-> Null]] :
        own \in BOOLEAN}

\* #getLabel with a slot per session: a caller that holds another session
\* than the one that filled the slot starts the resolver again.
GetLabelPerSession(late) ==
    IF label.deferred /\ (labelPromise.st = "none" \/ late)
    THEN /\ labelPromise' = IF label.own
                            THEN Promise("fulfilled", ActorHandle)
                            ELSE Promise("pending", <<>>)
         /\ resolverCalls' = [resolverCalls EXCEPT !.label = @ + 1]
         /\ sessionCalls' =
                IF label.own THEN sessionCalls
                ELSE [sessionCalls EXCEPT !.getActorHandle = @ + 1]
         /\ lateCalls' = IF late THEN lateCalls + 1 ELSE lateCalls
    ELSE UNCHANGED <<labelPromise, resolverCalls, sessionCalls, lateCalls>>

\* #getLabel, called by a caller that is late or not: the stored promise,
\* or the resolver is started and its promise stored.
GetLabel(late) ==
    IF label.deferred /\ labelPromise.st = "none"
    THEN /\ labelPromise' = IF label.own
                            THEN Promise("fulfilled", ActorHandle)
                            ELSE Promise("pending", <<>>)
         /\ resolverCalls' = [resolverCalls EXCEPT !.label = @ + 1]
         /\ sessionCalls' =
                IF label.own THEN sessionCalls
                ELSE [sessionCalls EXCEPT !.getActorHandle = @ + 1]
         /\ lateCalls' = IF late THEN lateCalls + 1 ELSE lateCalls
    ELSE UNCHANGED <<labelPromise, resolverCalls, sessionCalls, lateCalls>>

\* #getActor forgetting the stored promise: every caller starts the resolver.
GetActorNoMemo(late) ==
    IF actor.deferred
    THEN /\ actorPromise' = Promise("pending", Null)
         /\ actorStage' = IF actor.own THEN "getActor" ELSE "loader"
         /\ resolverCalls' = [resolverCalls EXCEPT !.actor = @ + 1]
         /\ sessionCalls' =
                IF actor.own
                THEN [sessionCalls EXCEPT !.getActor = @ + 1]
                ELSE [sessionCalls EXCEPT !.getDocumentLoader = @ + 1]
         /\ lateCalls' = IF late THEN lateCalls + 1 ELSE lateCalls
    ELSE UNCHANGED <<actorPromise, actorStage, resolverCalls, sessionCalls,
                     lateCalls>>

\* #getActor that forgets a rejected promise: the next caller starts the
\* resolver again.
GetActorRetry(late) ==
    IF actor.deferred /\ actorPromise.st \in {"none", "rejected"}
    THEN /\ actorPromise' = Promise("pending", Null)
         /\ actorStage' = IF actor.own THEN "getActor" ELSE "loader"
         /\ resolverCalls' = [resolverCalls EXCEPT !.actor = @ + 1]
         /\ sessionCalls' =
                IF actor.own
                THEN [sessionCalls EXCEPT !.getActor = @ + 1]
                ELSE [sessionCalls EXCEPT !.getDocumentLoader = @ + 1]
         /\ lateCalls' = IF late THEN lateCalls + 1 ELSE lateCalls
    ELSE UNCHANGED <<actorPromise, actorStage, resolverCalls, sessionCalls,
                     lateCalls>>

\* #getActor: the stored promise, or the resolver is started (it runs up to
\* its first await: session.getActor() or getDocumentLoader()) and its
\* promise stored.
GetActor(late) ==
    IF actor.deferred /\ actorPromise.st = "none"
    THEN /\ actorPromise' = Promise("pending", Null)
         /\ actorStage' = IF actor.own THEN "getActor" ELSE "loader"
         /\ resolverCalls' = [resolverCalls EXCEPT !.actor = @ + 1]
         /\ sessionCalls' =
                IF actor.own
                THEN [sessionCalls EXCEPT !.getActor = @ + 1]
                ELSE [sessionCalls EXCEPT !.getDocumentLoader = @ + 1]
         /\ lateCalls' = IF late THEN lateCalls + 1 ELSE lateCalls
    ELSE UNCHANGED <<actorPromise, actorStage, resolverCalls, sessionCalls,
                     lateCalls>>

\* What awaiting #getLabel / #getActor gives once settled.
LabelSettled == ~label.deferred \/ Settled(labelPromise)
LabelRejected == label.deferred /\ labelPromise.st = "rejected"
LabelValue == IF label.deferred THEN labelPromise.v ELSE label.s

\* An await of #getActor that only a fulfilled promise ends.
ActorFulfilled == ~actor.deferred \/ actorPromise.st = "fulfilled"

ActorSettled == ~actor.deferred \/ Settled(actorPromise)
ActorRejected == actor.deferred /\ actorPromise.st = "rejected"
ActorValue == IF actor.deferred THEN actorPromise.v ELSE actor.o

\* The url getHtml links to (<<>>: null).
MentionUrl(o) ==
    IF ~IsActor(o) THEN <<>>
    ELSE IF o.url = <<>> /\ ~o.link THEN o.id
    ELSE o.url

AnchorOpen == <<"<a href=\"">>
MentionAttrs ==
    <<"\" translate=\"no\" class=\"h-card u-url mention\" target=\"_blank\">">>

\* MentionText.getHtml yielding the label as it is.
MentionHtmlRaw(lbl, o) ==
    IF MentionUrl(o) = <<>> THEN lbl
    ELSE AnchorOpen \o Encode(MentionUrl(o)) \o MentionAttrs
         \o (IF lbl # <<>> /\ Head(lbl) = "@"
             THEN <<"@<span>">> \o Encode(Tail(lbl)) \o <<"</span>">>
             ELSE Encode(lbl))
         \o <<"</a>">>

\* MentionText.getHtml after its two awaits.
MentionHtml(lbl, o) ==
    IF MentionUrl(o) = <<>> THEN Encode(lbl)
    ELSE AnchorOpen \o Encode(MentionUrl(o)) \o MentionAttrs
         \o (IF lbl # <<>> /\ Head(lbl) = "@"
             THEN <<"@<span>">> \o Encode(Tail(lbl)) \o <<"</span>">>
             ELSE Encode(lbl))
         \o <<"</a>">>

\* MentionText.getTags after its two awaits.
MentionTags(lbl, o) ==
    IF IsActor(o) THEN <<Tag("Mention", lbl, o.id)>> ELSE <<>>

\* MentionText.getCachedObjects
MentionCached == IF cachedObject = Null THEN <<>> ELSE <<cachedObject>>

----------------------------------------------------------------------------
(* PlainText, StrongText, EmText, CodeText and LinkText *)

\* PlainText.getHtml: the encoded lines with "<br>" between them.
RECURSIVE JoinLines(_)
JoinLines(lines) ==
    IF Len(lines) = 1 THEN Encode(Head(lines))
    ELSE Encode(Head(lines)) \o <<"<br>">> \o JoinLines(Tail(lines))

PlainHtml(s) == JoinLines(SplitLines(s))

\* StrongText / EmText / CodeText .getHtml around the child's output.
StrongHtml(inner) == <<"<strong>">> \o inner \o <<"</strong>">>
EmHtml(inner) == <<"<em>">> \o inner \o <<"</em>">>
CodeHtml(inner) == <<"<code>">> \o inner \o <<"</code>">>

\* StrongText / EmText / CodeText .getCachedObjects
StrongCached == <<>>
EmCached == <<>>
CodeCached == <<>>

\* A URL string is a sequence of its parts: a scheme ("https:"), an
\* authority ("//e") and a path ("/p").  new URL(s) throws unless s is
\* absolute, and gives an authority without a path the path "/".
ParseUrl(s) ==
    IF Len(s) >= 2 /\ s[1] = "https:" /\ s[2] = "//e"
    THEN [ok |-> TRUE, href |-> IF Len(s) = 2 THEN s \o <<"/">> ELSE s]
    ELSE [ok |-> FALSE, href |-> <<>>]

\* The href arguments of the model: strings, and one URL object.
HrefStrings ==
    {<<"https:", "//e">>, <<"https:", "//e", "/p">>, <<"//e", "/p">>,
     <<"/p">>, <<"e", "/p">>, <<>>}

HrefArgs ==
    {[string |-> TRUE, s |-> h] : h \in HrefStrings}
    \cup {[string |-> FALSE, s |-> <<"https:", "//e", "/">>]}

NoHref == [given |-> [string |-> FALSE, s |-> <<>>], url |-> <<>>]

\* A constructor that stores the href argument as it is given.
LinkHrefUnparsed(arg) == [ok |-> TRUE, href |-> arg.s]

\* LinkText's constructor: what it makes of the href argument.
LinkHref(arg) ==
    IF arg.string THEN ParseUrl(arg.s) ELSE [ok |-> TRUE, href |-> arg.s]

\* LinkText.getHtml around the label's output.
LinkHtml(url, inner) ==
    AnchorOpen \o Encode(url) \o <<"\" target=\"_blank\">">> \o inner
    \o <<"</a>">>

\* The nodes that wrap the mention of the model.
Wrappers == {"strong", "em", "code", "link"}

\* getHtml of the root around the mention's output.
RootHtml(inner) ==
    CASE root = "strong" -> StrongHtml(inner)
      [] root = "em" -> EmHtml(inner)
      [] root = "code" -> CodeHtml(inner)
      [] root = "link" -> LinkHtml(linkHref.url, inner)
      [] OTHER -> inner

----------------------------------------------------------------------------
(* MarkdownText and the parser it configures *)

Handles == {ActorHandle, <<"@", "x">>, <<"@", "y">>}

Token(t, s) == [t |-> t, s |-> s]

\* The tokens of the model's sources, in the order they appear in a source.
AllTokens ==
    <<Token("mention", ActorHandle), Token("mention", <<"@", "x">>),
      Token("mention", <<"@", "y">>), Token("hashtag", <<"#", "F">>),
      Token("url", <<"u">>), Token("text", <<"<">>)>>

\* The tokens of AllTokens at the positions in S, in order.
RECURSIVE Pick(_, _)
Pick(S, k) ==
    IF k > Len(AllTokens) THEN <<>>
    ELSE (IF k \in S THEN <<AllTokens[k]>> ELSE <<>>) \o Pick(S, k + 1)

\* The sources of the model: at most MaxTokens tokens, none twice.  The two
\* remote handles are interchangeable: "@y" is mentioned only after "@x".
Contents ==
    {Pick(S, 1) : S \in {T \in SUBSET (1..Len(AllTokens)) :
                              /\ Cardinality(T) <= MaxTokens
                              /\ 3 \in T => 2 \in T}}

\* The tree of the model: text`${mention("@a")}${markdown("@x")}`.
TreeMention ==
    [label |-> [deferred |-> FALSE, own |-> FALSE, s |-> <<"@", "a">>],
     actor |-> [deferred |-> TRUE, own |-> FALSE, o |-> Null]]
TreeContent == <<Token("mention", <<"@", "x">>)>>

Toggles == [mentions : BOOLEAN, hashtags : BOOLEAN, linkify : BOOLEAN]

\* String.prototype.toLowerCase, on the characters of the model.
LowerChar(c) == IF c = "F" THEN "f" ELSE c
Lower(s) == [k \in 1..Len(s) |-> LowerChar(s[k])]

\* The env of a render: env.origin (<<>>: undefined) and env.actors.
Env(origin, acts) == [origin |-> origin, actors |-> acts]
NoEnv == Env(<<>>, Unset)
DiscoveryEnv == Env(<<"http://localhost">>, Unset)

\* The link callback falling back to the acct: link for a handle that has
\* no entry in env.actors.
MentionLinkFallback(handle, env) ==
    IF env.actors.set /\ handle \in DOMAIN env.actors.map
    THEN env.actors.map[handle]
    ELSE <<"acct:">> \o handle

\* The mention plugin's link callback.
MentionLink(handle, env) ==
    IF ~env.actors.set THEN <<"acct:">> \o handle
    ELSE IF handle \in DOMAIN env.actors.map THEN env.actors.map[handle]
    ELSE <<>>

\* The hashtag plugin's link callback: new URL(`/tags/${tag}`, env.origin)
\* throws without a base.
HashtagLink(hashtag, env) == env.origin \o <<"/tags/">> \o Lower(Tail(hashtag))

HashtagAttrs == <<"\" class=\"mention hashtag\" rel=\"tag\" target=\"_blank\">">>

\* markdownIt.render(source, env) with the plugins registered so far: the
\* html, the handles and hashtags the plugins pushed to env, and whether a
\* callback threw.
RECURSIVE MdRender(_, _, _, _)
MdRender(src, plugins, linkify, env) ==
    IF src = <<>>
    THEN [html |-> <<>>, mentions |-> <<>>, hashtags |-> <<>>, threw |-> FALSE]
    ELSE
    LET tok == Head(src)
        rest == MdRender(Tail(src), plugins, linkify, env)
        href == IF tok.t = "mention" THEN MentionLink(tok.s, env) ELSE <<>>
        one ==
          CASE tok.t = "mention" /\ plugins.mention ->
                 [html |-> IF href = <<>> THEN Encode(tok.s)
                           ELSE AnchorOpen \o Encode(href) \o MentionAttrs
                                \o Encode(tok.s) \o <<"</a>">>,
                  mentions |-> <<tok.s>>, hashtags |-> <<>>, threw |-> FALSE]
            [] tok.t = "hashtag" /\ plugins.hashtag ->
                 [html |-> AnchorOpen \o Encode(HashtagLink(tok.s, env))
                           \o HashtagAttrs \o <<"#<span>">>
                           \o Encode(Tail(tok.s)) \o <<"</span></a>">>,
                  mentions |-> <<>>, hashtags |-> <<tok.s>>,
                  threw |-> env.origin = <<>>]
            [] tok.t = "url" /\ linkify ->
                 [html |-> AnchorOpen \o Encode(tok.s) \o <<"\">">>
                           \o Encode(tok.s) \o <<"</a>">>,
                  mentions |-> <<>>, hashtags |-> <<>>, threw |-> FALSE]
            [] OTHER ->
                 [html |-> Encode(tok.s), mentions |-> <<>>,
                  hashtags |-> <<>>, threw |-> FALSE]
    IN  [html |-> one.html \o rest.html,
         mentions |-> one.mentions \o rest.mentions,
         hashtags |-> one.hashtags \o rest.hashtags,
         threw |-> one.threw \/ rest.threw]

\* The plugins with the mention plugin registered whatever the options say.
PluginsWithMention(opts) == [mention |-> TRUE, hashtag |-> opts.hashtags]

\* The plugins of #markdownIt once the constructor has run.
Plugins(opts) == [mention |-> opts.mentions, hashtag |-> opts.hashtags]

List(l) == [set |-> TRUE, list |-> l]
Undefined == [set |-> FALSE, list |-> <<>>]

\* The constructor's first discovery parse: only the mention plugin is
\* registered yet.
DiscoverMentions(src, opts) ==
    IF opts.mentions
    THEN List(MdRender(src, [mention |-> TRUE, hashtag |-> FALSE],
                       opts.linkify, DiscoveryEnv).mentions)
    ELSE Undefined

\* The constructor's second discovery parse.
DiscoverHashtags(src, opts) ==
    IF opts.hashtags
    THEN List(MdRender(src, Plugins(opts), opts.linkify,
                       DiscoveryEnv).hashtags)
    ELSE Undefined

Range(l) == {l[k] : k \in 1..Len(l)}

\* The url of an actor in getHtml's projection (<<>>: null).
MdUrl(o) == IF o.url # <<>> THEN o.url ELSE o.id

\* getHtml's handle -> url projection of the handle -> object mapping.
Projection(map) ==
    [h \in {g \in DOMAIN map : IsActor(map[g]) /\ MdUrl(map[g]) # <<>>}
        |-> MdUrl(map[h])]

\* The mapping #getMentionedActors builds of the objects that are not null.
ActorsOf(res) == [h \in {g \in DOMAIN res : res[g] # Null} |-> res[h]]

\* MarkdownText.getHtml once the mapping is there.
MarkdownHtml(session, map) ==
    MdRender(content, Plugins(options), options.linkify,
             Env(OriginOf(session),
                 [set |-> TRUE, map |-> Projection(map)]))

\* getTags' loop over the entries of the mapping, in the order of #mentions.
RECURSIVE MentionTagsOf(_, _)
MentionTagsOf(list, map) ==
    IF list = <<>> THEN <<>>
    ELSE LET h == Head(list)
         IN  (IF h \in DOMAIN map /\ IsActor(map[h]) /\ map[h].id # <<>>
              THEN <<Tag("Mention", h, map[h].id)>> ELSE <<>>)
             \o MentionTagsOf(Tail(list), map)

\* getTags' loop over #hashtags.
HashtagTagsOf(session, list) ==
    [k \in 1..Len(list) |->
        Tag("Hashtag", <<"#">> \o Lower(Tail(list[k])),
            OriginOf(session) \o <<"/tags/">> \o Lower(Tail(list[k])))]

\* MarkdownText.getTags once the mapping is there.
MarkdownTags(session, map) ==
    MentionTagsOf(mentions.list, map)
    \o (IF hashtags.set THEN HashtagTagsOf(session, hashtags.list)
        ELSE <<>>)

\* MarkdownText.getCachedObjects, in the order of #mentions.
RECURSIVE ValuesOf(_, _)
ValuesOf(list, map) ==
    IF list = <<>> THEN <<>>
    ELSE (IF Head(list) \in DOMAIN map THEN <<map[Head(list)]>> ELSE <<>>)
         \o ValuesOf(Tail(list), map)

MarkdownCached ==
    IF actors.set THEN ValuesOf(mentions.list, actors.map) ELSE <<>>

----------------------------------------------------------------------------
(* getHtml / getTags calls on the tree *)

Calls == 1..MaxCalls

\* A call slot: the operation, where it is suspended, the error it threw,
\* the label, the actor and the mapping its awaits gave it, what it has
\* yielded or (getCachedObjects) returned, and whether it began after
\* another call had completed.
IdleCall ==
    [op |-> "none", pc |-> "idle", err |-> "none", lbl |-> <<>>,
     actor |-> Null, actors |-> Unset, out |-> <<>>,
     tags |-> <<>>, cached |-> <<>>, late |-> FALSE, session |-> "S1"]

NoneDone == [set |-> FALSE, actor |-> Null, actors |-> Unset]

\* The call c has returned: the first one to do so is remembered.
Completed(c) ==
    firstDone' =
        IF firstDone.set THEN firstDone
        ELSE [set |-> TRUE, actor |-> calls'[c].actor,
              actors |-> calls'[c].actors]

Fail(c, err) == [calls EXCEPT ![c].pc = "failed", ![c].err = err]

\* The first next() of the generator.  On a mention (alone or as the first
\* child of the tree) the call runs up to `await this.#getLabel(session)`.
\* The caller passes the first session, or, once a call has completed, the
\* other one.
Start(c, op) ==
    /\ calls[c].pc = "idle"
    /\ root # "none"
    /\ started < MaxStarts
    /\ started' = started + 1
    /\ ran' = TRUE
    /\ \E session \in Sessions :
         /\ session = "S2" => firstDone.set
         /\ calls' = [calls EXCEPT ![c] =
                [IdleCall EXCEPT
                    !.op = op,
                    !.pc = IF root = "markdown" THEN "md" ELSE "awaitLabel",
                    !.late = firstDone.set,
                    !.session = session]]
    /\ IF root = "markdown"
       THEN UNCHANGED <<labelPromise, resolverCalls, sessionCalls, lateCalls>>
       ELSE GetLabel(firstDone.set)
    /\ UNCHANGED <<repoVars, nodeVars, textVars, label, actor, cachedObject, actorPromise,
                   actorStage, markdownVars, root, linkHref, mdFinished,
                   firstDone>>

\* The label has settled: the call throws, or goes on to
\* `await this.#getActor(session)`.
ResumeLabel(c) ==
    /\ calls[c].pc = "awaitLabel"
    /\ LabelSettled
    /\ IF LabelRejected
       THEN /\ calls' = Fail(c, "rejected")
            /\ UNCHANGED <<actorPromise, actorStage, resolverCalls,
                           sessionCalls, lateCalls>>
       ELSE /\ calls' = [calls EXCEPT ![c].pc = "awaitActor",
                                      ![c].lbl = LabelValue]
            /\ GetActor(calls[c].late)
    /\ UNCHANGED <<repoVars, nodeVars, textVars, label, actor, cachedObject, labelPromise,
                   markdownVars, root, linkHref, started, ran, mdFinished,
                   firstDone>>

\* The actor has settled: the call throws, or yields the mention's html or
\* tag.  In the tree, getHtml opens a paragraph for the inline child first.
ResumeActor(c) ==
    /\ calls[c].pc = "awaitActor"
    /\ ActorSettled
    /\ IF ActorRejected
       THEN /\ calls' = Fail(c, "rejected")
            /\ UNCHANGED firstDone
       ELSE /\ calls' = [calls EXCEPT
                  ![c].pc = IF root = "tree" THEN "md" ELSE "done",
                  ![c].actor = ActorValue,
                  ![c].out =
                      IF calls[c].op = "getHtml"
                      THEN IF root = "tree"
                           THEN <<"<p>">>
                                \o MentionHtml(calls[c].lbl, ActorValue)
                           ELSE RootHtml(MentionHtml(calls[c].lbl,
                                                     ActorValue))
                      ELSE <<>>,
                  ![c].tags =
                      IF calls[c].op = "getTags"
                      THEN MentionTags(calls[c].lbl, ActorValue)
                      ELSE <<>>]
            /\ IF root = "tree" THEN UNCHANGED firstDone ELSE Completed(c)
    /\ UNCHANGED <<repoVars, nodeVars, textVars, mentionVars, markdownVars, root,
                   linkHref,
                   sessionCalls,
                   resolverCalls, started, ran, mdFinished, lateCalls>>

\* getActorHandle() settles: the label resolver's promise does.
SettleLabel(ok) ==
    /\ labelPromise.st = "pending"
    /\ labelPromise' = IF ok THEN Promise("fulfilled", RemoteHandle)
                       ELSE Promise("rejected", <<>>)
    /\ UNCHANGED <<repoVars, nodeVars, textVars, label, actor, cachedObject, actorPromise,
                   actorStage, markdownVars, callVars>>

\* The actor resolver's promise is fulfilled: the then() callback stores an
\* object that is not null in #cachedObject.
Fulfil(o) ==
    /\ actorPromise' = Promise("fulfilled", o)
    /\ cachedObject' = IF o # Null THEN o ELSE cachedObject
    /\ actorStage' = "done"

Reject ==
    /\ actorPromise' = Promise("rejected", Null)
    /\ actorStage' = "done"
    /\ UNCHANGED cachedObject

\* session.getActor() settles in the actor resolver.
SettleGetActor(ok) ==
    /\ actorStage = "getActor"
    /\ IF ok THEN Fulfil(BotActor) ELSE Reject
    /\ UNCHANGED <<repoVars, nodeVars, textVars, label, actor, labelPromise, markdownVars,
                   callVars>>

\* getDocumentLoader() settles in the actor resolver, which then calls
\* lookupObject().
SettleLoader(ok) ==
    /\ actorStage = "loader"
    /\ IF ok
       THEN /\ actorStage' = "lookup"
            /\ sessionCalls' = [sessionCalls EXCEPT !.mentionLookup = @ + 1]
            /\ UNCHANGED <<actorPromise, cachedObject>>
       ELSE /\ Reject
            /\ UNCHANGED sessionCalls
    /\ UNCHANGED <<repoVars, nodeVars, textVars, label, actor, labelPromise,
                   markdownVars, root,
                   linkHref,
                   calls, resolverCalls, started, ran, mdFinished, firstDone,
                   lateCalls>>

\* lookupObject() settles in the actor resolver.
SettleLookup(ok, o) ==
    /\ actorStage = "lookup"
    /\ IF ok THEN Fulfil(o) ELSE Reject
    /\ UNCHANGED <<repoVars, nodeVars, textVars, label, actor, labelPromise, markdownVars,
                   callVars>>

\* What a call yields for the markdown node once it has the mapping.
Yield(c, map) ==
    [calls EXCEPT
        ![c].pc = "done",
        ![c].actors = [set |-> TRUE, map |-> map],
        ![c].out =
            IF calls[c].op = "getHtml"
            THEN @ \o (IF root = "tree" THEN <<"</p>">> ELSE <<>>)
                   \o MarkdownHtml(calls[c].session, map).html
            ELSE @,
        ![c].tags =
            IF calls[c].op = "getTags"
            THEN @ \o MarkdownTags(calls[c].session, map) ELSE @]

\* The call enters the markdown node (alone or as the block child of the
\* tree).  Without #mentions getHtml renders with no env and getTags
\* returns; with #actors set the call yields from it; else
\* #getMentionedActors calls getDocumentLoader() and waits.
MdEnter(c) ==
    /\ calls[c].pc = "md"
    /\ IF ~mentions.set
       THEN /\ LET r == MdRender(content, Plugins(options), options.linkify,
                                 NoEnv)
               IN  calls' =
                     IF calls[c].op = "getTags"
                     THEN [calls EXCEPT ![c].pc = "done"]
                     ELSE IF r.threw THEN Fail(c, "TypeError")
                     ELSE [calls EXCEPT
                             ![c].pc = "done",
                             ![c].out = @ \o (IF root = "tree"
                                              THEN <<"</p>">> ELSE <<>>)
                                          \o r.html]
            /\ IF calls'[c].pc = "done" THEN Completed(c)
               ELSE UNCHANGED firstDone
            /\ UNCHANGED <<sessionCalls, lateCalls>>
       ELSE IF actors.set
       THEN /\ calls' = Yield(c, actors.map)
            /\ Completed(c)
            /\ UNCHANGED <<sessionCalls, lateCalls>>
       ELSE /\ calls' = [calls EXCEPT ![c].pc = "mdLoader"]
            /\ sessionCalls' =
                   [sessionCalls EXCEPT !.getDocumentLoader = @ + 1]
            /\ lateCalls' = IF calls[c].late THEN lateCalls + 1 ELSE lateCalls
            /\ UNCHANGED firstDone
    /\ UNCHANGED <<repoVars, nodeVars, textVars, mentionVars, markdownVars, root,
                   linkHref,
                   resolverCalls,
                   started, ran, mdFinished>>

\* The collaborator calls of a map that looks every handle up, the
\* session's own one too.
LookupsAll(sc, list) ==
    [sc EXCEPT
        !.lookupObject =
            [h \in Handles |->
                sc.lookupObject[h]
                + Cardinality({k \in 1..Len(list) : list[k] = h})]]

\* The collaborator calls of a loop that issues the lookup of the first
\* handle and awaits it before it goes on to the next.
LookupsFirst(sc, list) ==
    IF list = <<>> THEN sc
    ELSE [sc EXCEPT
            !.getActor = IF Head(list) = ActorHandle THEN @ + 1 ELSE @,
            !.lookupObject =
                [h \in Handles |->
                    IF h = Head(list) /\ h # ActorHandle
                    THEN sc.lookupObject[h] + 1
                    ELSE sc.lookupObject[h]]]

\* The collaborator calls of #mentions.map(...): getActor() for the session's
\* own handle, lookupObject() for every other one.
Lookups(sc, list) ==
    [sc EXCEPT
        !.getActor = @ + Cardinality({k \in 1..Len(list) :
                                         list[k] = ActorHandle}),
        !.lookupObject =
            [h \in Handles |->
                sc.lookupObject[h]
                + Cardinality({k \in 1..Len(list) :
                                  list[k] = h /\ h # ActorHandle})]]

\* getDocumentLoader() settles in the call's #getMentionedActors, which then
\* issues the lookups of all handles and awaits them together.
MdLoader(c, ok) ==
    /\ calls[c].pc = "mdLoader"
    /\ IF ok
       THEN /\ calls' = [calls EXCEPT ![c].pc = "mdLookups"]
            /\ sessionCalls' = Lookups(sessionCalls, mentions.list)
            /\ lateCalls' = IF calls[c].late
                            THEN lateCalls + Len(mentions.list)
                            ELSE lateCalls
            /\ UNCHANGED mdFinished
       ELSE /\ calls' = Fail(c, "rejected")
            /\ mdFinished' = TRUE
            /\ UNCHANGED <<sessionCalls, lateCalls>>
    /\ UNCHANGED <<repoVars, nodeVars, textVars, mentionVars, markdownVars, root,
                   linkHref,
                   resolverCalls,
                   started, ran, firstDone>>

\* What the lookups of the handles in list may answer: getActor() the bot's
\* own actor, lookupObject() any of LookupResults.
Answers(list) ==
    {res \in [Range(list) -> LookupResults \cup {BotActor}] :
        \A h \in Range(list) : (h = ActorHandle) <=> (res[h] = BotActor)}

\* Promise.all() is fulfilled with the objects the lookups answered (what a
\* lookup answered is seen by nobody before that): #getMentionedActors
\* stores the mapping in #actors and the call yields from it.
MdResolved(c) ==
    /\ calls[c].pc = "mdLookups"
    /\ \E res \in Answers(mentions.list) :
         /\ actors' = [set |-> TRUE, map |-> ActorsOf(res)]
         /\ calls' = Yield(c, ActorsOf(res))
    /\ Completed(c)
    /\ mdFinished' = TRUE
    /\ UNCHANGED <<repoVars, nodeVars, textVars, mentionVars, content, options, mentions,
                   hashtags, root, linkHref, sessionCalls, resolverCalls,
                   started, ran,
                   lateCalls>>

\* A rejected Promise.all() after which the objects of the lookups that
\* succeeded are stored.
MdRejectedKeeps(c) ==
    /\ calls[c].pc = "mdLookups"
    /\ mentions.list # <<>>
    /\ calls' = Fail(c, "rejected")
    /\ mdFinished' = TRUE
    /\ \E res \in Answers(mentions.list) :
         actors' = [set |-> TRUE, map |-> ActorsOf(res)]
    /\ UNCHANGED <<repoVars, nodeVars, textVars, mentionVars, content, options,
                   mentions, hashtags, root, linkHref, sessionCalls,
                   resolverCalls, started, ran, firstDone, lateCalls>>

\* One of the lookups rejects, and with it Promise.all().
MdRejected(c) ==
    /\ calls[c].pc = "mdLookups"
    /\ mentions.list # <<>>
    /\ calls' = Fail(c, "rejected")
    /\ mdFinished' = TRUE
    /\ UNCHANGED <<repoVars, nodeVars, textVars, mentionVars, markdownVars, root,
                   linkHref,
                   sessionCalls,
                   resolverCalls, started, ran, firstDone, lateCalls>>

\* The caller has consumed the call's result (or its error).
Return(c) ==
    /\ calls[c].pc \in {"done", "failed"}
    /\ calls' = [calls EXCEPT ![c] = IdleCall]
    /\ UNCHANGED <<repoVars, nodeVars, textVars, mentionVars, markdownVars, root,
                   linkHref,
                   sessionCalls,
                   resolverCalls, started, ran, mdFinished, firstDone,
                   lateCalls>>

\* getCachedObjects() of the root.
CachedObjects ==
    CASE root = "mention" -> MentionCached
      [] root = "markdown" -> MarkdownCached
      [] root = "strong" -> StrongCached
      [] root = "em" -> EmCached
      [] root = "code" -> CodeCached
      [] root = "link" -> MentionCached
      [] OTHER -> MentionCached \o MarkdownCached

\* A getCachedObjects() call: it returns at once.
GetCachedObjects(c) ==
    /\ calls[c].pc = "idle"
    /\ root # "none"
    /\ started < MaxStarts
    /\ started' = started + 1
    /\ calls' = [calls EXCEPT ![c] =
           [IdleCall EXCEPT !.op = "getCachedObjects", !.pc = "done",
                            !.cached = CachedObjects]]
    /\ UNCHANGED <<repoVars, nodeVars, textVars, mentionVars, markdownVars, root,
                   linkHref,
                   sessionCalls, resolverCalls, ran, mdFinished, firstDone,
                   lateCalls>>

----------------------------------------------------------------------------
(* The specifications *)

\* No TemplatedText.getHtml in progress.
TextIdle ==
    /\ strings = <<<<>>>>
    /\ values = <<>>
    /\ i = 0
    /\ paraState = "closed"
    /\ html = <<>>
    /\ tpc = "done"

\* No hashtag, custom emoji or TemplatedText with values is there.
NodeIdle ==
    /\ node = [kind |-> "none"]
    /\ emojiCalls = 0
    /\ results = <<>>

\* The tables of a repository that was just constructed: all of them empty.
EmptyDb ==
    [key_pairs |-> <<>>,
     messages |-> [id \in {} |-> <<>>],
     followers |-> {},
     follow_requests |-> [r \in {} |-> "none"]]

\* Autocommit mode: no BEGIN TRANSACTION is waiting for its COMMIT.
NoTransaction == [open |-> FALSE, before |-> EmptyDb]

\* A task that runs no repository operation.
IdleOp ==
    [op |-> "none", pc |-> "idle", keyPairs |-> <<>>, k |-> 0, id |-> "none",
     row |-> <<>>, updater |-> "none", request |-> "none", actor |-> "none",
     ret |-> "none"]

Tasks == {"T1", "T2"}

\* A repository on a fresh database, with no operation called yet.
RepoIdle ==
    /\ db = EmptyDb
    /\ transaction = NoTransaction
    /\ running = [t \in Tasks |-> IdleOp]
    /\ updated = <<>>
    /\ invoked = 0

DefaultMention ==
    [label |-> [deferred |-> FALSE, own |-> FALSE, s |-> <<"@", "a">>],
     actor |-> [deferred |-> FALSE, own |-> FALSE, o |-> PersonFull]]

DefaultToggles == [mentions |-> TRUE, hashtags |-> TRUE, linkify |-> TRUE]

\* Constructors that start the lookups: the mention's resolver runs up to
\* its first await, the markdown node asks for the document loader.
ConstructedEager(r, m, src, opts) ==
    /\ root = r
    /\ label = m.label
    /\ actor = m.actor
    /\ cachedObject = IF m.actor.deferred THEN Null ELSE m.actor.o
    /\ labelPromise = Promise("none", <<>>)
    /\ actorPromise = IF m.actor.deferred THEN Promise("pending", Null)
                      ELSE Promise("none", Null)
    /\ actorStage = IF ~m.actor.deferred THEN "none"
                    ELSE IF m.actor.own THEN "getActor" ELSE "loader"
    /\ content = src
    /\ options = opts
    /\ mentions = DiscoverMentions(src, opts)
    /\ hashtags = DiscoverHashtags(src, opts)
    /\ actors = Unset
    /\ calls = [c \in Calls |-> IdleCall]
    /\ sessionCalls =
           [NoCalls EXCEPT !.lookupObject = [h \in Handles |-> 0],
                           !.getDocumentLoader = 1]
    /\ resolverCalls =
           [label |-> 0, actor |-> IF m.actor.deferred THEN 1 ELSE 0]
    /\ started = 0
    /\ ran = FALSE
    /\ mdFinished = FALSE
    /\ firstDone = NoneDone
    /\ lateCalls = 0

\* The state after the nodes' constructors have run.
Constructed(r, m, src, opts) ==
    /\ root = r
    /\ label = m.label
    /\ actor = m.actor
    /\ cachedObject = IF m.actor.deferred THEN Null ELSE m.actor.o
    /\ labelPromise = Promise("none", <<>>)
    /\ actorPromise = Promise("none", Null)
    /\ actorStage = "none"
    /\ content = src
    /\ options = opts
    /\ mentions = DiscoverMentions(src, opts)
    /\ hashtags = DiscoverHashtags(src, opts)
    /\ actors = Unset
    /\ calls = [c \in Calls |-> IdleCall]
    /\ sessionCalls = [NoCalls EXCEPT !.lookupObject = [h \in Handles |-> 0]]
    /\ resolverCalls = [label |-> 0, actor |-> 0]
    /\ started = 0
    /\ ran = FALSE
    /\ mdFinished = FALSE
    /\ firstDone = NoneDone
    /\ lateCalls = 0

\* The mentions the wrappers are built around: mention("@a") and
\* mention("@a", actor).
WrappedForms == {TreeMention, DefaultMention}

\* link(mention, href): the constructor throws, or the node is there.
LinkConstructed(m, arg) ==
    /\ linkHref = [given |-> arg, url |-> LinkHref(arg).href]
    /\ IF LinkHref(arg).ok
       THEN Constructed("link", m, <<>>, DefaultToggles)
       ELSE Constructed("none", DefaultMention, <<>>, DefaultToggles)

Init ==
    /\ TextIdle
    /\ NodeIdle
    /\ RepoIdle
    /\ \/ /\ linkHref = NoHref
          /\ \/ \E m \in MentionForms :
                  Constructed("mention", m, <<>>, DefaultToggles)
             \/ \E src \in Contents, opts \in Toggles :
                  Constructed("markdown", DefaultMention, src, opts)
             \/ Constructed("tree", TreeMention, TreeContent, DefaultToggles)
             \/ \E w \in Wrappers \ {"link"}, m \in WrappedForms :
                  Constructed(w, m, <<>>, DefaultToggles)
       \/ \E m \in WrappedForms, arg \in HrefArgs : LinkConstructed(m, arg)

Next ==
    \/ \E c \in Calls, op \in {"getHtml", "getTags"} : Start(c, op)
    \/ \E c \in Calls : ResumeLabel(c)
    \/ \E c \in Calls : ResumeActor(c)
    \/ \E ok \in BOOLEAN : SettleLabel(ok)
    \/ \E ok \in BOOLEAN : SettleGetActor(ok)
    \/ \E ok \in BOOLEAN : SettleLoader(ok)
    \/ \E ok \in BOOLEAN, o \in MentionResults : SettleLookup(ok, o)
    \/ \E c \in Calls : MdEnter(c)
    \/ \E c \in Calls, ok \in BOOLEAN : MdLoader(c, ok)
    \/ \E c \in Calls : MdResolved(c)
    \/ \E c \in Calls : MdRejected(c)
    \/ \E c \in Calls : Return(c)
    \/ \E c \in Calls : GetCachedObjects(c)

Spec == Init /\ [][Next]_vars

\* The templates of the model: a text of at most MaxLen characters cut into
\* n + 1 literal segments around n values.
Cuts(w, n) ==
    {c \in [1..n -> 0..Len(w)] : \A k \in 1..(n - 1) : c[k] <= c[k + 1]}

Segments(w, c) ==
    LET n == Len(c)
        from(k) == IF k = 1 THEN 1 ELSE c[k - 1] + 1
        to(k) == IF k = n + 1 THEN Len(w) ELSE c[k]
    IN  [k \in 1..(n + 1) |-> SubSeq(w, from(k), to(k))]

\* text`Hello, <${em("World")}>!\n\nGoodbye!`
HelloStrings ==
    << <<"H", "e", "l", "l", "o", ",", " ", "<">>,
       <<">", "!", "\n", "\n", "G", "o", "o", "d", "b", "y", "e", "!">> >>

TextInit ==
    /\ \/ \E w \in StringsUpTo(MaxLen), n \in 0..MaxValues :
            /\ \E c \in Cuts(w, n) : strings = Segments(w, c)
            /\ values \in [1..n -> {"inline", "block"}]
       \/ strings = HelloStrings /\ values = <<"inline">>
    /\ linkHref = NoHref
    /\ i = 0
    /\ paraState = "closed"
    /\ html = <<>>
    /\ tpc = "strings"
    /\ Constructed("text", DefaultMention, <<>>, DefaultToggles)
    /\ NodeIdle
    /\ RepoIdle

\* for (i ...) { const paragraphs = ...; for (const para of paragraphs) ... }
GetHtmlStrings ==
    /\ tpc = "strings"
    /\ LET r == RenderString(strings[i + 1], i, paraState)
       IN  /\ html' = html \o r.out
           /\ paraState' = r.para
    /\ tpc' = IF i < Len(values) THEN "value" ELSE "end"
    /\ i' = IF i < Len(values) THEN i ELSE i + 1
    /\ UNCHANGED <<strings, values, mentionVars, markdownVars, callVars,
                   nodeVars, repoVars>>

\* if (i < this.#values.length) { ...; yield* value.getHtml(session); }
GetHtmlValue ==
    /\ tpc = "value"
    /\ LET r == RenderValue(values[i + 1], i, paraState)
       IN  /\ html' = html \o r.out
           /\ paraState' = r.para
    /\ i' = i + 1
    /\ tpc' = "strings"
    /\ UNCHANGED <<strings, values, mentionVars, markdownVars, callVars,
                   nodeVars, repoVars>>

\* if (paraState === "opened") yield "</p>";
GetHtmlEnd ==
    /\ tpc = "end"
    /\ html' = IF paraState = "opened"
               THEN Append(html, Item("</p>", "tag", i, 0)) ELSE html
    /\ tpc' = "done"
    /\ UNCHANGED <<strings, values, i, paraState, mentionVars, markdownVars,
                   callVars, nodeVars, repoVars>>

TextNext == GetHtmlStrings \/ GetHtmlValue \/ GetHtmlEnd

SpecText == TextInit /\ [][TextNext]_vars

----------------------------------------------------------------------------
(* HashtagText, CustomEmojiText and the values of a TemplatedText *)

\* The characters a hashtag is given in: "#", white space, a letter that
\* toLowerCase() changes, the dot of a URL's dot segments, and a character
\* encode() escapes.
TagChar == {"#", " ", "\n", "F", ".", "<"}

\* String.prototype.trimStart() and trim()
RECURSIVE TrimStart(_)
TrimStart(s) ==
    IF s # <<>> /\ IsSpace(Head(s)) THEN TrimStart(Tail(s)) ELSE s

RECURSIVE Trim(_)
Trim(s) ==
    IF s # <<>> /\ IsSpace(Head(s)) THEN Trim(Tail(s))
    ELSE IF s # <<>> /\ IsSpace(s[Len(s)])
    THEN Trim(SubSeq(s, 1, Len(s) - 1))
    ELSE s

\* replace(/\s+/g, " ")
RECURSIVE Collapse(_)
Collapse(s) ==
    IF s = <<>> THEN <<>>
    ELSE IF IsSpace(Head(s)) THEN <<" ">> \o Collapse(TrimStart(s))
    ELSE <<Head(s)>> \o Collapse(Tail(s))

\* The constructor that keeps a leading "#".
HashtagTextKeepHash(tag) == Collapse(Trim(TrimStart(tag)))

\* new HashtagText(tag): the #tag it stores.
HashtagText(tag) ==
    LET t == TrimStart(tag)
        u == IF t # <<>> /\ Head(t) = "#" THEN Tail(t) ELSE t
    IN  Collapse(Trim(u))

\* encodeURIComponent(): the characters of TagChar it escapes.
EncodeURIComponent(s) ==
    [k \in 1..Len(s) |->
        CASE s[k] = " " -> "%20"
          [] s[k] = "\n" -> "%0A"
          [] s[k] = "#" -> "%23"
          [] s[k] = "<" -> "%3C"
          [] OTHER -> s[k]]

\* new URL("/tags/" + segment, origin).href: the parser removes a "." and a
\* ".." segment.
TagUrl(segment, origin) ==
    IF segment = <<".">> THEN origin \o <<"/tags/">>
    ELSE IF segment = <<".", ".">> THEN origin \o <<"/">>
    ELSE origin \o <<"/tags/">> \o segment

HashtagOpen ==
    <<"\" class=\"mention hashtag\" rel=\"tag\" target=\"_blank\">#<span>">>

\* HashtagText.getHtml
HashtagHtml(tag) ==
    AnchorOpen \o Encode(Origin) \o <<"/tags/">>
    \o Encode(EncodeURIComponent(Lower(tag)))
    \o HashtagOpen \o tag \o <<"</span></a>">>

\* HashtagText.getTags
HashtagTags(tag) ==
    <<Tag("Hashtag", <<"#">> \o Lower(tag),
          TagUrl(EncodeURIComponent(Lower(tag)), Origin))>>

\* An Emoji object as far as the text tree reads it: its name, if it has one.
Emoji(named, name) == [type |-> "Emoji", named |-> named, name |-> name]

Emojis ==
    {Emoji(FALSE, <<>>), Emoji(TRUE, <<":", "a", ":">>),
     Emoji(TRUE, <<":", "<", ":">>)}

\* The zero-width space getHtml puts around the name.
ZeroWidthSpace == <<"U+200B">>

\* CustomEmojiText.getHtml, for the emoji getEmoji() returned.
EmojiHtml(emoji) ==
    IF ~emoji.named THEN <<>>
    ELSE ZeroWidthSpace \o Encode(emoji.name) \o ZeroWidthSpace

\* getTags that yields the emoji only when it has a name.
EmojiTagsNamed(emoji) == IF emoji.named THEN <<emoji>> ELSE <<>>

\* CustomEmojiText.getTags, for the emoji getEmoji() returned.
EmojiTags(emoji) == <<emoji>>

\* getEmoji(): how often it evaluates the deferred emoji of node n.
GetEmoji(n) == IF n.deferred THEN 1 ELSE 0

\* Most interpolated values of a TemplatedText whose tags are collected.
MaxChildren == 2

\* The values interpolated into a template: which of the constructor's tests
\* a value passes (isText() is duck-typed, the others are class tests that
\* exclude each other), and the type of a value that passes isText().
RawValues ==
    {v \in [isText : BOOLEAN, isURL : BOOLEAN, isActor : BOOLEAN,
            isEmoji : BOOLEAN, type : {"inline", "block"}] :
        /\ Cardinality({f \in {"isURL", "isActor", "isEmoji"} : v[f]}) <= 1
        /\ ~v.isText => v.type = "inline"}

\* values.map(...) with the isText() test last.
CoerceTextLast(v) ==
    IF v.isURL THEN [kind |-> "link", type |-> "inline", of |-> v]
    ELSE IF v.isActor THEN [kind |-> "mention", type |-> "inline", of |-> v]
    ELSE IF v.isEmoji
    THEN [kind |-> "customEmoji", type |-> "inline", of |-> v]
    ELSE IF v.isText THEN [kind |-> "text", type |-> v.type, of |-> v]
    ELSE [kind |-> "plain", type |-> "inline", of |-> v]

\* values.map(...) of the TemplatedText constructor: the node stored for v.
Coerce(v) ==
    IF v.isText THEN [kind |-> "text", type |-> v.type, of |-> v]
    ELSE IF v.isURL THEN [kind |-> "link", type |-> "inline", of |-> v]
    ELSE IF v.isActor THEN [kind |-> "mention", type |-> "inline", of |-> v]
    ELSE IF v.isEmoji
    THEN [kind |-> "customEmoji", type |-> "inline", of |-> v]
    ELSE [kind |-> "plain", type |-> "inline", of |-> v]

\* getTags of a stored value: a link and a plain text have none, a mention
\* of an actor has its Mention, a custom emoji its Emoji; a text node given
\* as it is is hashtag("F") if inline and markdown("@m #F"), resolved, if
\* block.
ValueTags(child) ==
    CASE child.kind = "link" -> <<>>
      [] child.kind = "plain" -> <<>>
      [] child.kind = "mention" -> MentionTags(RemoteHandle, PersonFull)
      [] child.kind = "customEmoji" -> EmojiTags(Emoji(TRUE, <<":", "a", ":">>))
      [] child.type = "inline" -> HashtagTags(<<"F">>)
      [] OTHER -> MentionTags(RemoteHandle, PersonFull)
                  \o HashtagTags(<<"F">>)

\* TemplatedText.getTags with the values taken last to first.
RECURSIVE TemplatedTagsReversed(_)
TemplatedTagsReversed(children) ==
    IF children = <<>> THEN <<>>
    ELSE TemplatedTagsReversed(Tail(children)) \o ValueTags(Head(children))

\* TemplatedText.getTags: for (const value of this.#values) yield* ...
RECURSIVE TemplatedTags(_)
TemplatedTags(children) ==
    IF children = <<>> THEN <<>>
    ELSE ValueTags(Head(children)) \o TemplatedTags(Tail(children))

\* The literal segments of such a template: empty, or text that reads like
\* a hashtag or a mention.
Literals == {<<>>, <<"#", "F">>, <<"@", "m">>}

\* hashtag(tag), customEmoji(emoji) with an Emoji or a deferred emoji, or
\* text`...` around up to MaxChildren values.
NodeInit ==
    /\ TextIdle
    /\ RepoIdle
    /\ linkHref = NoHref
    /\ Constructed("node", DefaultMention, <<>>, DefaultToggles)
    /\ emojiCalls = 0
    /\ results = <<>>
    /\ \/ \E k \in 0..MaxLen : \E tag \in [1..k -> TagChar] :
            node = [kind |-> "hashtag", given |-> tag,
                    tag |-> HashtagText(tag)]
       \/ \E d \in BOOLEAN, e \in Emojis :
            node = [kind |-> "customEmoji", deferred |-> d, emoji |-> e]
       \/ \E n \in 0..MaxChildren :
            \E ss \in [1..(n + 1) -> Literals], vs \in [1..n -> RawValues] :
                node = [kind |-> "templated", strings |-> ss, given |-> vs,
                        values |-> [k \in 1..n |-> Coerce(vs[k])]]

\* getHtml() of a hashtag or a custom emoji, run to its end.
NodeGetHtml ==
    /\ node.kind \in {"hashtag", "customEmoji"}
    /\ Len(results) < MaxCalls
    /\ results' = Append(results,
           [op |-> "getHtml",
            out |-> IF node.kind = "hashtag" THEN HashtagHtml(node.tag)
                    ELSE EmojiHtml(node.emoji),
            tags |-> <<>>])
    /\ emojiCalls' = IF node.kind = "customEmoji"
                     THEN emojiCalls + GetEmoji(node)
                     ELSE emojiCalls
    /\ UNCHANGED <<node, textVars, mentionVars, markdownVars, callVars,
                   repoVars>>

\* getTags() of the node, run to its end.
NodeGetTags ==
    /\ Len(results) < MaxCalls
    /\ results' = Append(results,
           [op |-> "getTags",
            out |-> <<>>,
            tags |-> CASE node.kind = "hashtag" -> HashtagTags(node.tag)
                       [] node.kind = "customEmoji" -> EmojiTags(node.emoji)
                       [] OTHER -> TemplatedTags(node.values)])
    /\ emojiCalls' = IF node.kind = "customEmoji"
                     THEN emojiCalls + GetEmoji(node)
                     ELSE emojiCalls
    /\ UNCHANGED <<node, textVars, mentionVars, markdownVars, callVars,
                   repoVars>>

NodeNext == NodeGetHtml \/ NodeGetTags

SpecNodes == NodeInit /\ [][NodeNext]_vars

----------------------------------------------------------------------------
(* Properties of TemplatedText.getHtml *)

IsOpen(x) == x.k = "tag" /\ x.a = "<p>"
IsClose(x) == x.k = "tag" /\ x.a = "</p>"

\* How many of the first n items of h satisfy the test.
Opens(h, n) == Cardinality({m \in 1..n : IsOpen(h[m])})
Closes(h, n) == Cardinality({m \in 1..n : IsClose(h[m])})

\* The paragraphs of this node open after the first n items of h.
Depth(h, n) == Opens(h, n) - Closes(h, n)

\* The position of the "<p>" of the paragraph item n of h lies in, 0 when it
\* lies in none.
ParaOf(h, n) ==
    LET before == {m \in 1..n : IsOpen(h[m])}
    IN  IF before = {} THEN 0
        ELSE LET last == CHOOSE m \in before : \A o \in before : o <= m
             IN  IF \E z \in last..n : IsClose(h[z]) THEN 0 ELSE last

\* The chunks of a literal: the elements of the split that lie between the
\* blank-line boundaries (the odd ones; the even ones are the text of the
\* capturing group).
Chunks(s) ==
    LET ps == SplitParagraphs(s)
    IN  [k \in 1..((Len(ps) + 1) \div 2) |-> ps[2 * k - 1]]

NonBlankChunks(s) ==
    Cardinality({k \in 1..Len(Chunks(s)) : ~IsBlank(Chunks(s)[k])})

\* C5: getHtml never yields "<p>" while a paragraph of this node is open,
\* never yields "</p>" while none is open, and ends with none open, so that
\* it has yielded as many "<p>" as "</p>".
C5_ParagraphsBalanced ==
    /\ \A n \in 1..Len(html) :
         /\ IsOpen(html[n]) => Depth(html, n - 1) = 0
         /\ IsClose(html[n]) => Depth(html, n - 1) = 1
    /\ tpc = "done" =>
         /\ Depth(html, Len(html)) = 0
         /\ Opens(html, Len(html)) = Closes(html, Len(html))

\* C5's case: a finished render, around an interpolated value, that opened
\* and closed two paragraphs.
C5_Witness ==
    /\ tpc = "done"
    /\ Len(values) >= 1
    /\ Opens(html, Len(html)) >= 2

\* C6 as claimed: one literal of N chunks renders exactly N paragraphs, also
\* when its first or last chunk is empty.
C6_Original ==
    (tpc = "done" /\ Len(strings) = 1) =>
        /\ Opens(html, Len(html)) = Len(Chunks(strings[1]))
        /\ Closes(html, Len(html)) = Len(Chunks(strings[1]))

\* C6 as amended: one literal renders exactly one "<p>"..."</p>" pair per
\* chunk that holds a character other than white space; an empty or blank
\* first or last chunk gets no paragraph.
C6_NonBlankChunks ==
    (tpc = "done" /\ Len(strings) = 1) =>
        /\ Opens(html, Len(html)) = NonBlankChunks(strings[1])
        /\ Closes(html, Len(html)) = NonBlankChunks(strings[1])

\* C6's case: a finished render of one literal of two chunks, the first of
\* them empty, the other one rendered as the only paragraph.
C6_Witness ==
    /\ tpc = "done"
    /\ Len(strings) = 1
    /\ Len(Chunks(strings[1])) = 2
    /\ Chunks(strings[1])[1] = <<>>
    /\ Opens(html, Len(html)) = 1

\* Item x of h is content that precedes the blank-line boundary before the
\* text item y: it belongs to an earlier segment or value, or to an earlier
\* chunk of y's segment.
AcrossBoundary(h, x, y) ==
    /\ x < y
    /\ h[y].k = "text"
    /\ h[y].par >= 2
    /\ h[x].k \in {"text", "child"}
    /\ \/ h[x].seg < h[y].seg
       \/ h[x].seg = h[y].seg /\ h[x].k = "text" /\ h[x].par < h[y].par

\* C7: content before a blank-line boundary of a literal segment and text
\* after it never lie in the same paragraph of this node.
C7_BoundarySeparates ==
    \A x, y \in 1..Len(html) :
        AcrossBoundary(html, x, y) =>
            ~(ParaOf(html, x) # 0 /\ ParaOf(html, x) = ParaOf(html, y))

\* C7's case: an inline child opened the paragraph and the next segment
\* has text after a blank-line boundary.
C7_Witness ==
    /\ tpc = "done"
    /\ \E x, y \in 1..Len(html) :
         /\ AcrossBoundary(html, x, y)
         /\ html[x].k = "child"
         /\ html[x].a = "inline"
         /\ ParaOf(html, x) # 0
         /\ ParaOf(html, y) # 0

----------------------------------------------------------------------------
(* Properties of the mention and markdown nodes *)

Finished(c) == calls[c].pc = "done" /\ calls[c].op \in {"getHtml", "getTags"}

\* C1: whatever getHtml, getTags and getCachedObjects calls are made on a
\* mention, and however they overlap, its label resolver and its actor
\* resolver are each invoked at most once.
C1_ResolversOnce ==
    /\ resolverCalls.label <= 1
    /\ resolverCalls.actor <= 1

\* C1's case: two calls wait for the same pending actor resolution.
C1_Witness ==
    /\ actorPromise.st = "pending"
    /\ resolverCalls.actor = 1
    /\ \E c, d \in Calls :
         c # d /\ calls[c].pc = "awaitActor" /\ calls[d].pc = "awaitActor"

\* C2 as claimed: as long as no resolution of a markdown node has ended,
\* the calls made on it have caused at most one lookupObject() call per
\* handle.
C2_Original ==
    ~mdFinished => \A h \in Handles : sessionCalls.lookupObject[h] <= 1

\* C3 as claimed: no getHtml or getTags call raises because a collaborator
\* of the session threw or rejected.
C3_Original == \A c \in Calls : calls[c].err # "rejected"

\* C4 as claimed: a call begun after a call has completed calls no
\* collaborator and no resolver, and gets the objects the first completed
\* call got.
C4_Original ==
    /\ lateCalls = 0
    /\ \A c \in Calls :
         (Finished(c) /\ calls[c].late) =>
             /\ calls[c].actor = firstDone.actor
             /\ calls[c].actors = firstDone.actors

\* A call on the mention has finished and the actor lookup had answered null
\* (or an object that is no actor).
NullMention(c) ==
    /\ root = "mention"
    /\ Finished(c)
    /\ actor.deferred
    /\ actorPromise.st = "fulfilled"
    /\ ~IsActor(actorPromise.v)

\* C8: a mention whose actor lookup answers null, the handle or URL not
\* referring to an actor, renders exactly the escaped label, with no anchor,
\* and getTags yields no tag.
C8_NullActorPlainLabel ==
    \A c \in Calls :
        NullMention(c) =>
            /\ calls[c].op = "getHtml" =>
                 /\ calls[c].out = Encode(LabelValue)
                 /\ \A k \in 1..Len(calls[c].out) :
                      calls[c].out[k] \notin {"<", Head(AnchorOpen)}
            /\ calls[c].op = "getTags" => calls[c].tags = <<>>

\* C8's case: such a mention, with a label encode() changes, was rendered.
C8_Witness ==
    \E c \in Calls :
        /\ NullMention(c)
        /\ calls[c].op = "getHtml"
        /\ LabelValue = <<"<", "a">>

\* The handle h is rendered as the label of a mention anchor / outside one.
Anchored(out, h) ==
    \E k \in 2..(Len(out) - Len(h) + 1) :
        SubSeq(out, k, k + Len(h) - 1) = h /\ out[k - 1] = Head(MentionAttrs)

Plain(out, h) ==
    \E k \in 1..(Len(out) - Len(h) + 1) :
        SubSeq(out, k, k + Len(h) - 1) = h
        /\ (k = 1 \/ out[k - 1] # Head(MentionAttrs))

Mentioned(tags, h) ==
    \E k \in 1..Len(tags) : tags[k].type = "Mention" /\ tags[k].name = h

\* A call on the markdown node has finished with a mapping.
Resolved(c) == root = "markdown" /\ Finished(c) /\ calls[c].actors.set

\* What the lookup of handle h answered in the call's resolution.
Answer(c, h) ==
    IF h \in DOMAIN calls[c].actors.map THEN calls[c].actors.map[h] ELSE Null

\* A handle whose lookup answered null: no entry in the projection, plain
\* text, no Mention.
NullHandleFallsBack(c, h) ==
    Answer(c, h) = Null =>
        /\ h \notin DOMAIN Projection(calls[c].actors.map)
        /\ calls[c].op = "getHtml" =>
             Plain(calls[c].out, h) /\ ~Anchored(calls[c].out, h)
        /\ calls[c].op = "getTags" => ~Mentioned(calls[c].tags, h)

\* C9 as claimed: a handle whose lookup answers null falls back, and every
\* other handle, resolved to an actor, is an anchor and a Mention.
C9_Original ==
    \A c \in Calls : \A h \in Range(mentions.list) :
        Resolved(c) =>
            /\ NullHandleFallsBack(c, h)
            /\ IsActor(Answer(c, h)) =>
                 /\ calls[c].op = "getHtml" => Anchored(calls[c].out, h)
                 /\ calls[c].op = "getTags" => Mentioned(calls[c].tags, h)

\* C9 as amended: a handle whose lookup answers null falls back; every
\* other handle resolved to an actor that has a URL or an identifier is an
\* anchor, and is a Mention when the actor has an identifier.
C9_NullHandleFallsBack ==
    \A c \in Calls : \A h \in Range(mentions.list) :
        Resolved(c) =>
            /\ NullHandleFallsBack(c, h)
            /\ IsActor(Answer(c, h)) =>
                 /\ (calls[c].op = "getHtml" /\ MdUrl(Answer(c, h)) # <<>>) =>
                      Anchored(calls[c].out, h)
                 /\ (calls[c].op = "getTags" /\ Answer(c, h).id # <<>>) =>
                      Mentioned(calls[c].tags, h)

\* C9's case: of two handles one answered null and is plain text, the other
\* one resolved and is an anchor.
C9_Witness ==
    \E c \in Calls : \E g, h \in Range(mentions.list) :
        /\ Resolved(c)
        /\ calls[c].op = "getHtml"
        /\ Answer(c, g) = Null
        /\ Answer(c, h) = PersonFull
        /\ Plain(calls[c].out, g)
        /\ Anchored(calls[c].out, h)

Count(tags, type) == Cardinality({k \in 1..Len(tags) : tags[k].type = type})

\* C10 as claimed: for every setting of the toggles getTags yields one
\* Hashtag per discovered hashtag when hashtags is enabled, and one Mention
\* per handle resolved to an actor with an identifier when mentions is.
C10_Original ==
    \A c \in Calls :
        (root = "markdown" /\ Finished(c) /\ calls[c].op = "getTags") =>
            /\ options.hashtags =>
                 Count(calls[c].tags, "Hashtag")
                     = Len(DiscoverHashtags(content, options).list)
            /\ options.mentions =>
                 Count(calls[c].tags, "Mention")
                     = Cardinality({h \in Range(mentions.list) :
                           /\ IsActor(Answer(c, h))
                           /\ Answer(c, h).id # <<>>})

----------------------------------------------------------------------------
(* Properties of the markdown toggles, the wrappers and the cache *)

\* The sequence sub occurs in the sequence out.
Contains(out, sub) ==
    \E k \in 1..(Len(out) - Len(sub) + 1) :
        SubSeq(out, k, k + Len(sub) - 1) = sub

\* A getHtml call on the markdown node has rendered, or the render threw.
Rendered(c) ==
    /\ root = "markdown"
    /\ calls[c].op = "getHtml"
    /\ calls[c].pc = "done" \/ calls[c].err = "TypeError"

\* C11 as claimed: with hashtags enabled, whatever the mentions toggle, a
\* render of the markdown node gives every hashtag an anchor at
\* <session origin>/tags/<lowercased tag>.
C11_Original ==
    \A c \in Calls :
        (Rendered(c) /\ options.hashtags) =>
            /\ calls[c].pc = "done"
            /\ \A k \in 1..Len(hashtags.list) :
                 Contains(calls[c].out,
                          Origin \o <<"/tags/">>
                          \o Lower(Tail(hashtags.list[k])))

\* The parser invoked directly on the node's source, with the node's
\* remaining configuration and no mention plugin.
Direct ==
    MdRender(content, [mention |-> FALSE, hashtag |-> options.hashtags],
             options.linkify, NoEnv)

\* C12: a markdown node with mentions disabled has discovered no mention,
\* calls no collaborator of the session, and its getHtml ends as the parser
\* invoked directly ends: with the same html, or with the same error.
C12_MentionsOffIsDirectParse ==
    (root = "markdown" /\ ~options.mentions) =>
        /\ ~mentions.set
        /\ sessionCalls.getActor = 0
        /\ sessionCalls.getDocumentLoader = 0
        /\ \A h \in Handles : sessionCalls.lookupObject[h] = 0
        /\ \A c \in Calls :
             calls[c].op = "getHtml" =>
                 /\ calls[c].pc = "done" =>
                      ~Direct.threw /\ calls[c].out = Direct.html
                 /\ calls[c].pc = "failed" =>
                      Direct.threw /\ calls[c].err = "TypeError"

\* C12's case: such a node, whose source mentions a handle, has rendered
\* the handle as plain text, and a getTags call has finished too.
C12_Witness ==
    /\ root = "markdown"
    /\ ~options.mentions
    /\ \E k \in 1..Len(content) : content[k].t = "mention"
    /\ \E c, d \in Calls :
         /\ calls[c].op = "getHtml" /\ calls[c].pc = "done"
         /\ calls[c].out # <<>>
         /\ calls[d].op = "getTags" /\ calls[d].pc = "done"

\* C13 as claimed: on strong(mention), em(mention) and code(mention), a
\* getTags call that finishes yields exactly the mention's tags, and a
\* getCachedObjects call returns exactly the mention's cached objects.
C13_Original ==
    [][\A c \in Calls :
          root \in {"strong", "em", "code"} =>
              /\ (calls[c].pc = "awaitActor" /\ calls'[c].pc = "done"
                  /\ calls[c].op = "getTags") =>
                     calls'[c].tags = MentionTags(calls[c].lbl, ActorValue)
              /\ (calls[c].pc = "idle"
                  /\ calls'[c].op = "getCachedObjects") =>
                     calls'[c].cached = MentionCached]_vars

\* The objects the getHtml and getTags calls made so far have resolved.
ResolvedObjects ==
    (IF actorPromise.st = "fulfilled" THEN {actorPromise.v} ELSE {})
    \cup (IF actors.set THEN {actors.map[h] : h \in DOMAIN actors.map}
          ELSE {})

\* C14 as claimed: a getCachedObjects call invokes no resolver and no
\* collaborator of the session, changes no memo slot, and returns only
\* objects an earlier getHtml or getTags call has resolved.
C14_Original ==
    [][\A c \in Calls :
          (calls[c].pc = "idle" /\ calls'[c].op = "getCachedObjects") =>
              /\ UNCHANGED <<mentionVars, markdownVars, sessionCalls,
                             resolverCalls>>
              /\ Range(calls'[c].cached) \subseteq ResolvedObjects]_vars

\* C15 as claimed: as long as no getHtml or getTags call has been made on
\* the tree, however it was constructed, getCachedObjects returns nothing.
C15_Original ==
    ~ran =>
        \A c \in Calls :
            (calls[c].op = "getCachedObjects" /\ calls[c].pc = "done") =>
                calls[c].cached = <<>>

\* C16 as claimed: what getCachedObjects returns never loses an object: an
\* object it would return before a step it would return after it too.
C16_Original == [][Range(CachedObjects) \subseteq Range(CachedObjects')]_vars

\* C17: lookupObject() is never called for the session's own handle: a
\* mention of the session's own handle, identifier or URL makes no
\* lookupObject() call and resolves to what getActor() answered, and so does
\* the own handle discovered in a markdown node.
C17_OwnActorLocally ==
    /\ sessionCalls.lookupObject[ActorHandle] = 0
    /\ (actor.deferred /\ actor.own) =>
         /\ sessionCalls.mentionLookup = 0
         /\ actorPromise.st = "fulfilled" =>
              actorPromise.v = BotActor /\ sessionCalls.getActor >= 1
    /\ \A c \in Calls :
         (Resolved(c) /\ ActorHandle \in Range(mentions.list)) =>
             /\ Answer(c, ActorHandle) = BotActor
             /\ sessionCalls.getActor >= 1

\* C17's case: a markdown node that mentions the session's own handle and
\* another one has resolved both, the other one by lookupObject().
C17_Witness ==
    \E c \in Calls :
        /\ Resolved(c)
        /\ ActorHandle \in Range(mentions.list)
        /\ Answer(c, ActorHandle) = BotActor
        /\ sessionCalls.lookupObject[<<"@", "x">>] >= 1

\* C18: as long as no getHtml or getTags call has been made, whatever was
\* constructed and however often getCachedObjects was called, no
\* collaborator of the session and no resolver was invoked and nothing is
\* resolved.
C18_ConstructionIsInert ==
    ~ran =>
        /\ sessionCalls.getActor = 0
        /\ sessionCalls.getDocumentLoader = 0
        /\ sessionCalls.getActorHandle = 0
        /\ sessionCalls.mentionLookup = 0
        /\ \A h \in Handles : sessionCalls.lookupObject[h] = 0
        /\ resolverCalls = [label |-> 0, actor |-> 0]
        /\ labelPromise.st = "none"
        /\ actorPromise.st = "none"
        /\ ~actors.set

\* C18's case: a markdown node whose discovery parse found a handle, with
\* a getCachedObjects call but no getHtml or getTags call made on it.
C18_Witness ==
    /\ ~ran
    /\ started >= 1
    /\ root = "markdown"
    /\ mentions.set
    /\ mentions.list # <<>>

\* A URL string is absolute when it begins with a scheme.
IsAbsolute(s) == s # <<>> /\ Head(s) = "https:"

\* C19: link() given a string that is no absolute URL throws and leaves no
\* node to call; on a link that was constructed no getHtml or getTags call
\* fails with the URL's TypeError, and getHtml yields the anchor of the
\* absolute URL.
C19_LinkFailsFast ==
    /\ (linkHref.given.string /\ ~IsAbsolute(linkHref.given.s)) =>
         /\ root = "none"
         /\ started = 0
         /\ \A c \in Calls : calls[c] = IdleCall
    /\ root = "link" =>
         /\ IsAbsolute(linkHref.url)
         /\ \A c \in Calls :
              /\ calls[c].err # "TypeError"
              /\ (calls[c].op = "getHtml" /\ calls[c].pc = "done") =>
                   Contains(calls[c].out, AnchorOpen \o Encode(linkHref.url))

\* C19's case: a link constructed from a string, which new URL() turned
\* into another href, has been rendered.
C19_Witness ==
    /\ root = "link"
    /\ linkHref.given.string
    /\ linkHref.given.s # linkHref.url
    /\ \E c \in Calls : calls[c].op = "getHtml" /\ calls[c].pc = "done"

----------------------------------------------------------------------------
(* The example of text() *)

\* The atoms of the items h, with inner for the output of every child.
RECURSIVE Flatten(_, _)
Flatten(h, inner) ==
    IF h = <<>> THEN <<>>
    ELSE (IF Head(h).k = "child" THEN inner ELSE <<Head(h).a>>)
         \o Flatten(Tail(h), inner)

\* <p>Hello, &lt;<em>World</em>&gt;!</p><p>Goodbye!</p>
HelloHtml ==
    <<"<p>", "H", "e", "l", "l", "o", ",", " ", "&lt;",
      "<em>", "W", "o", "r", "l", "d", "</em>", "&gt;", "!", "</p>",
      "<p>", "G", "o", "o", "d", "b", "y", "e", "!", "</p>">>

\* C20: text`Hello, <${em("World")}>!\n\nGoodbye!` renders exactly the two
\* paragraphs <p>Hello, &lt;<em>World</em>&gt;!</p> and <p>Goodbye!</p>.
C20_HelloWorld ==
    (tpc = "done" /\ strings = HelloStrings) =>
        /\ Flatten(html, EmHtml(PlainHtml(<<"W", "o", "r", "l", "d">>)))
               = HelloHtml
        /\ Opens(html, Len(html)) = 2
        /\ Closes(html, Len(html)) = 2

\* C20's case: the example has been rendered.
C20_Witness ==
    /\ tpc = "done"
    /\ strings = HelloStrings
    /\ values = <<"inline">>
    /\ Len(html) > 2

\* C21: where getHtml yields the output of a child, no paragraph of this
\* node is open if the child is a block (an open one was closed with "</p>"
\* just before) and exactly one is open if the child is inline (a "<p>" was
\* yielded just before when none was open).
C21_ChildPlacement ==
    \A n \in 1..Len(html) :
        html[n].k = "child" =>
            /\ html[n].a = "block" =>
                 /\ Depth(html, n - 1) = 0
                 /\ ParaOf(html, n) = 0
                 /\ n > 1 => html[n - 1].k # "text"
            /\ html[n].a = "inline" =>
                 /\ Depth(html, n - 1) = 1
                 /\ ParaOf(html, n) # 0

\* C21's case: a block child right after the "</p>" that closed the
\* paragraph of the text before it.
C21_Witness ==
    /\ tpc = "done"
    /\ \E n \in 3..Len(html) :
         /\ html[n].k = "child"
         /\ html[n].a = "block"
         /\ IsClose(html[n - 1])
         /\ html[n - 2].k = "text"

\* The lines of chunk p of a literal that hold a character other than white
\* space.
VisibleLines(s, p) ==
    LET lines == SplitLines(Chunks(s)[p])
    IN  {k \in 1..Len(lines) : ~IsBlank(lines[k])}

\* The literal starts with a line break that is followed by visible text of
\* the same chunk.
LeadingBreak(s) ==
    LET lines == SplitLines(Chunks(s)[1])
    IN  /\ Len(lines) >= 2
        /\ IsBlank(lines[1])
        /\ VisibleLines(s, 1) # {}

\* The "<br>" yielded for chunk p of segment seg.
Breaks(h, seg, p) ==
    Cardinality({n \in 1..Len(h) :
                    h[n] = Item("<br>", "tag", seg, 2 * (p - 1))})

\* C22 as claimed: a chunk gets one "<br>" per line break between two of its
\* visible lines, and one more for the line break it starts with when it
\* continues the paragraph of the inline child before it.
C22_Original ==
    tpc = "done" =>
        \A s \in 1..Len(strings) : \A p \in 1..Len(Chunks(strings[s])) :
            LET between == IF VisibleLines(strings[s], p) = {} THEN 0
                           ELSE Cardinality(VisibleLines(strings[s], p)) - 1
                leading == IF /\ p = 1
                              /\ s > 1
                              /\ values[s - 1] = "inline"
                              /\ LeadingBreak(strings[s])
                           THEN 1 ELSE 0
            IN  Breaks(html, s - 1, p) = between + leading

\* The lookup of handle h has been issued.
Issued(h) ==
    IF h = ActorHandle THEN sessionCalls.getActor >= 1
    ELSE sessionCalls.lookupObject[h] >= 1

\* C23: a call that awaits the lookups awaits those of all handles, all of
\* them issued already; the mapping is unset until a resolution has finished
\* and is then the mapping of all handles at once; getCachedObjects returns
\* nothing or the objects of such a complete mapping.
C23_LookupsTogether ==
    /\ \A c \in Calls :
         calls[c].pc = "mdLookups" =>
             \A h \in Range(mentions.list) : Issued(h)
    /\ actors.set =>
         /\ mdFinished
         /\ \A h \in Range(mentions.list) : Issued(h)
         /\ \E res \in Answers(mentions.list) : actors.map = ActorsOf(res)
    /\ \A c \in Calls :
         (root = "markdown" /\ calls[c].op = "getCachedObjects"
            /\ calls[c].pc = "done") =>
             \/ calls[c].cached = <<>>
             \/ /\ mdFinished
                /\ \A h \in Range(mentions.list) : Issued(h)
                /\ \E res \in Answers(mentions.list) :
                     calls[c].cached = ValuesOf(mentions.list, ActorsOf(res))

\* C23's case: a markdown node that mentions two handles, a call still
\* awaiting its own lookups of both, and a getCachedObjects call that has
\* returned the two objects another call's resolution stored.
C23_Witness ==
    /\ root = "markdown"
    /\ Cardinality(Range(mentions.list)) = 2
    /\ \E c, d \in Calls :
         /\ calls[c].pc = "mdLookups"
         /\ calls[d].op = "getCachedObjects"
         /\ calls[d].pc = "done"
         /\ Len(calls[d].cached) = 2

\* The anchor MentionText.getHtml is said to yield for a label and a target.
MentionAnchor(lbl, target) ==
    AnchorOpen \o Encode(target) \o MentionAttrs
    \o (IF lbl # <<>> /\ Head(lbl) = "@"
        THEN <<"@<span>">> \o Encode(Tail(lbl)) \o <<"</span>">>
        ELSE Encode(lbl))
    \o <<"</a>">>

\* C24 as claimed: a finished getHtml on a mention whose actor has a url or
\* an id has yielded the anchor to the url when the actor has one and to the
\* id otherwise, around "@<span>...</span>" for a label that starts with "@"
\* and around the escaped label otherwise.
C24_Original ==
    \A c \in Calls :
        (root = "mention" /\ Finished(c) /\ calls[c].op = "getHtml"
           /\ IsActor(calls[c].actor)
           /\ (calls[c].actor.url # <<>> \/ calls[c].actor.id # <<>>)) =>
            calls[c].out =
                MentionAnchor(calls[c].lbl,
                    IF calls[c].actor.url # <<>> THEN calls[c].actor.url
                    ELSE calls[c].actor.id)

----------------------------------------------------------------------------
(* Properties of HashtagText, CustomEmojiText and TemplatedText.getTags *)

\* C25 as claimed: however many getHtml and getTags calls are made on a
\* custom emoji, its deferred emoji is evaluated at most once.
C25_Original == node.kind = "customEmoji" => emojiCalls <= 1

\* C26: on a custom emoji every getTags has yielded exactly one tag, the
\* emoji, whether it has a name or not; every getHtml has yielded nothing
\* for an emoji without a name and otherwise a zero-width space, the escaped
\* name and a zero-width space.
C26_EmojiTagAndHtml ==
    node.kind = "customEmoji" =>
        \A k \in 1..Len(results) :
            /\ results[k].op = "getTags" =>
                 /\ Len(results[k].tags) = 1
                 /\ results[k].tags[1] = node.emoji
            /\ results[k].op = "getHtml" =>
                 IF ~node.emoji.named THEN results[k].out = <<>>
                 ELSE /\ Len(results[k].out) = Len(node.emoji.name) + 2
                      /\ Head(results[k].out) = "U+200B"
                      /\ results[k].out[Len(results[k].out)] = "U+200B"
                      /\ \A j \in 1..Len(node.emoji.name) :
                           results[k].out[j + 1] =
                               IF node.emoji.name[j] = "<" THEN "&lt;"
                               ELSE node.emoji.name[j]

\* C26's case: an emoji without a name, from a deferred emoji, for which
\* getHtml has yielded nothing and getTags its one tag.
C26_Witness ==
    /\ node.kind = "customEmoji"
    /\ node.deferred
    /\ ~node.emoji.named
    /\ \E k, j \in 1..Len(results) :
         /\ results[k].op = "getHtml"
         /\ results[k].out = <<>>
         /\ results[j].op = "getTags"
         /\ Len(results[j].tags) = 1

\* The characters of s that are no white space.
Visible(s) == SelectSeq(s, LAMBDA c : ~IsSpace(c))

\* The hashtag as given, without the "#" it starts with after white space.
WithoutHash(s) ==
    LET first == {k \in 1..Len(s) : ~IsSpace(s[k])}
    IN  IF first = {} THEN s
        ELSE LET f == CHOOSE k \in first : \A m \in first : k <= m
             IN  IF s[f] = "#"
                 THEN SubSeq(s, 1, f - 1) \o SubSeq(s, f + 1, Len(s))
                 ELSE s

\* The places of s where white space separates two runs of other characters.
Gaps(s) ==
    Cardinality({k \in 1..Len(s) :
        /\ ~IsSpace(s[k])
        /\ k < Len(s) /\ IsSpace(s[k + 1])
        /\ \E m \in (k + 2)..Len(s) : ~IsSpace(s[m])})

\* The URL an href denotes: the origin and the path without its dot
\* segments.
Denoted(hrefText) ==
    IF hrefText = Origin \o <<"/tags/", ".">> THEN Origin \o <<"/tags/">>
    ELSE IF hrefText = Origin \o <<"/tags/", ".", ".">> THEN Origin \o <<"/">>
    ELSE hrefText

\* The href attribute of the anchor a hashtag rendered: what lies between
\* the opening of the anchor and the end of its attributes.
RenderedHref(out) ==
    LET e == CHOOSE k \in 1..Len(out) : out[k] = Head(HashtagOpen)
    IN  SubSeq(out, 2, e - 1)

\* C27: a hashtag stores its name without one leading "#", without white
\* space around it and with one space for every run of white space inside
\* it; getHtml labels the anchor with that name in the casing given; the
\* anchor's href and the tag's href are the same URL, the origin's /tags/
\* path of the lowercased name, and the tag's name is "#" and the lowercased
\* name.
C27_HashtagNormalised ==
    node.kind = "hashtag" =>
        /\ node.tag = <<>> \/ (~IsSpace(Head(node.tag))
                                 /\ ~IsSpace(node.tag[Len(node.tag)]))
        /\ \A k \in 1..Len(node.tag) :
             IsSpace(node.tag[k]) =>
                 node.tag[k] = " " /\ ~IsSpace(node.tag[k + 1])
        /\ Visible(node.tag) = Visible(WithoutHash(node.given))
        /\ Gaps(node.tag) = Gaps(WithoutHash(node.given))
        /\ \A k \in 1..Len(results) :
             /\ results[k].op = "getHtml" =>
                  /\ Head(results[k].out) = Head(AnchorOpen)
                  /\ Contains(results[k].out, HashtagOpen \o node.tag
                                                \o <<"</span></a>">>)
                  /\ Denoted(RenderedHref(results[k].out))
                       = HashtagTags(node.tag)[1].href
             /\ results[k].op = "getTags" =>
                  /\ Len(results[k].tags) = 1
                  /\ results[k].tags[1].type = "Hashtag"
                  /\ results[k].tags[1].name = <<"#">> \o Lower(node.tag)
                  /\ results[k].tags[1].href =
                       Denoted(Origin \o <<"/tags/">> \o
                           [j \in 1..Len(node.tag) |->
                               CASE node.tag[j] = "F" -> "f"
                                 [] node.tag[j] = " " -> "%20"
                                 [] node.tag[j] = "#" -> "%23"
                                 [] node.tag[j] = "<" -> "%3C"
                                 [] OTHER -> node.tag[j]])

\* C27's case: "#F\nF", given with a leading "#", a capital letter and a
\* line break inside, stored as "F F", rendered and asked for its tags.
C27_Witness ==
    /\ node.kind = "hashtag"
    /\ node.given = <<"#", "F", "\n", "F">>
    /\ node.tag = <<"F", " ", "F">>
    /\ \E k, j \in 1..Len(results) :
         results[k].op = "getHtml" /\ results[j].op = "getTags"

\* C28: every value a TemplatedText stores is a text node of type "inline"
\* or "block": the value itself when it is a text node, whatever else it
\* is, and otherwise a link for a URL, a mention for an actor, a custom emoji
\* for an Emoji and a plain text for anything else.
C28_ValuesCoerced ==
    node.kind = "templated" =>
        /\ Len(node.values) = Len(node.given)
        /\ \A k \in 1..Len(node.given) :
             LET v == node.given[k]
                 child == node.values[k]
             IN  /\ child.type \in {"inline", "block"}
                 /\ child.of = v
                 /\ v.isText => child.kind = "text" /\ child.type = v.type
                 /\ ~v.isText =>
                      /\ child.type = "inline"
                      /\ v.isURL => child.kind = "link"
                      /\ v.isActor => child.kind = "mention"
                      /\ v.isEmoji => child.kind = "customEmoji"
                      /\ (~v.isURL /\ ~v.isActor /\ ~v.isEmoji) =>
                           child.kind = "plain"

\* C28's case: a template whose values are a block text node that is a URL
\* too and a value that is none of the four.
C28_Witness ==
    /\ node.kind = "templated"
    /\ \E k, j \in 1..Len(node.given) :
         /\ node.given[k].isText /\ node.given[k].isURL
         /\ node.given[k].type = "block"
         /\ node.values[k].kind = "text"
         /\ node.values[j].kind = "plain"
    /\ results # <<>>

\* How many tags the first k of the children yield.
RECURSIVE TagsBefore(_, _)
TagsBefore(children, k) ==
    IF k = 0 THEN 0
    ELSE TagsBefore(children, k - 1) + Len(ValueTags(children[k]))

\* C29: getTags of a TemplatedText has yielded the tags of its first value,
\* then those of its second and so on, and nothing else, whatever its
\* literal segments are.
C29_TagsInOrder ==
    node.kind = "templated" =>
        \A r \in 1..Len(results) :
            results[r].op = "getTags" =>
                /\ Len(results[r].tags)
                     = TagsBefore(node.values, Len(node.values))
                /\ \A k \in 1..Len(node.values) :
                     \A j \in 1..Len(ValueTags(node.values[k])) :
                         results[r].tags[TagsBefore(node.values, k - 1) + j]
                             = ValueTags(node.values[k])[j]

\* C29's case: a template with a literal that reads like a hashtag, around a
\* custom emoji followed by a mention: getTags yielded the Emoji, then the
\* Mention.
C29_Witness ==
    /\ node.kind = "templated"
    /\ \E s \in 1..Len(node.strings) : node.strings[s] = <<"#", "F">>
    /\ Len(node.values) = 2
    /\ node.values[1].kind = "customEmoji"
    /\ node.values[2].kind = "mention"
    /\ \E r \in 1..Len(results) :
         /\ results[r].op = "getTags"
         /\ Len(results[r].tags) = 2
         /\ results[r].tags[1].type = "Emoji"
         /\ results[r].tags[2].type = "Mention"

----------------------------------------------------------------------------
(* Repeated calls *)

\* C30 as claimed: a getHtml or getTags call made on a markdown node after
\* its mapping was stored has yielded what the same call yields when it is
\* repeated now.
C30_Original ==
    \A c \in Calls :
        (root = "markdown" /\ Finished(c) /\ calls[c].late /\ actors.set) =>
            /\ calls[c].op = "getHtml" =>
                 calls[c].out
                     = MarkdownHtml(calls[c].session, actors.map).html
            /\ calls[c].op = "getTags" =>
                 calls[c].tags = MarkdownTags(calls[c].session, actors.map)

----------------------------------------------------------------------------
(* Termination *)

\* A step of a call that is due, or a collaborator of the session settling:
\* everything but the callers' own decisions to make or to consume a call.
Progress ==
    \/ \E c \in Calls : ResumeLabel(c)
    \/ \E c \in Calls : ResumeActor(c)
    \/ \E ok \in BOOLEAN : SettleLabel(ok)
    \/ \E ok \in BOOLEAN : SettleGetActor(ok)
    \/ \E ok \in BOOLEAN : SettleLoader(ok)
    \/ \E ok \in BOOLEAN, o \in MentionResults : SettleLookup(ok, o)
    \/ \E c \in Calls : MdEnter(c)
    \/ \E c \in Calls, ok \in BOOLEAN : MdLoader(c, ok)
    \/ \E c \in Calls : MdResolved(c)
    \/ \E c \in Calls : MdRejected(c)

\* The trees whose calls are followed to their end: every mention, the
\* markdown nodes with the default options that mention the session's own
\* handle and one remote handle at most, and the tree of both.
InitLive ==
    /\ TextIdle
    /\ NodeIdle
    /\ RepoIdle
    /\ linkHref = NoHref
    /\ \/ \E m \in MentionForms :
            Constructed("mention", m, <<>>, DefaultToggles)
       \/ \E src \in {c \in Contents :
                         \A k \in 1..Len(c) : c[k].s # <<"@", "y">>} :
            Constructed("markdown", DefaultMention, src, DefaultToggles)
       \/ Constructed("tree", TreeMention, TreeContent, DefaultToggles)

\* The calls on the tree when every collaborator call settles and the event
\* loop runs every continuation that is due.
SpecLive == InitLive /\ [][Next]_vars /\ WF_vars(Progress)

\* C31: a getHtml or getTags call that has begun ends, by returning or by
\* throwing.
C31_CallsComplete ==
    \A c \in Calls :
        (calls[c].pc \notin {"idle", "done", "failed"})
            ~> (calls[c].pc \in {"done", "failed"})

\* C31's case: two calls that awaited the one pending actor resolution of a
\* mention have both ended.
C31_Witness ==
    /\ root = "mention"
    /\ actor.deferred
    /\ resolverCalls.actor = 1
    /\ started = 2
    /\ \A c \in Calls : Finished(c) /\ calls[c].actor = actorPromise.v
    /\ actorPromise.st = "fulfilled"

----------------------------------------------------------------------------
(* Escaping *)

\* C32 as claimed: what getHtml of a hashtag or of a custom emoji yields
\* holds no "<" of the name it was given: every "<" of the name is yielded
\* as "&lt;".
C32_Original ==
    \A k \in 1..Len(results) :
        results[k].op = "getHtml" =>
            \A j \in 1..Len(results[k].out) : results[k].out[j] # "<"

----------------------------------------------------------------------------
(* Rendering and tags *)

\* The tags hold a Mention of that name that has an href.
MentionedWithHref(tags, h) ==
    \E k \in 1..Len(tags) :
        tags[k].type = "Mention" /\ tags[k].name = h /\ tags[k].href # <<>>

\* C33 as claimed: a finished getHtml and a finished getTags that got the
\* same object(s) agree: the mention (each handle of the markdown node) is
\* rendered as an anchor exactly when getTags has yielded a Mention with an
\* href for it.
C33_Original ==
    \A c, d \in Calls :
        (Finished(c) /\ Finished(d)
           /\ calls[c].op = "getHtml" /\ calls[d].op = "getTags") =>
            /\ (root = "mention" /\ calls[c].actor = calls[d].actor
                  /\ calls[c].lbl = calls[d].lbl) =>
                 (Head(calls[c].out) = Head(AnchorOpen)
                    <=> MentionedWithHref(calls[d].tags, calls[d].lbl))
            /\ (root = "markdown" /\ calls[c].actors.set
                  /\ calls[c].actors = calls[d].actors) =>
                 \A h \in Range(mentions.list) :
                     Anchored(calls[c].out, h)
                         <=> MentionedWithHref(calls[d].tags, h)

----------------------------------------------------------------------------
(* Sessions *)

\* C34: a call made with the other session, after a call with the first
\* session has completed, starts no resolver and waits for no lookup of its
\* own; no collaborator is called for it; it yields the label and the objects
\* the first session resolved: the first session's own handle and actor for
\* a mention of that session's own actor, and the first session's actor for
\* its handle in a markdown node.
C34_MemoNotKeyedBySession ==
    /\ lateCalls = 0
    /\ \A c \in Calls :
         calls[c].session = "S2" =>
             /\ calls[c].pc \notin {"mdLoader", "mdLookups"}
             /\ resolverCalls.label <= 1 /\ resolverCalls.actor <= 1
             /\ (Finished(c) /\ root = "mention") =>
                  /\ calls[c].lbl = LabelValue
                  /\ calls[c].actor = ActorValue
                  /\ actor.own => calls[c].actor = BotActor
                  /\ (label.deferred /\ label.own) =>
                       calls[c].lbl = ActorHandle
             /\ (Finished(c) /\ root = "markdown" /\ mentions.set) =>
                  /\ calls[c].actors.set
                  /\ ActorHandle \in Range(mentions.list) =>
                       Answer(c, ActorHandle) = BotActor

\* C34's case: a call with the other session has finished on a mention of
\* the first session's own actor, whose label and actor were resolved by a
\* call with the first session.
C34_Witness ==
    /\ root = "mention"
    /\ label.deferred /\ actor.deferred /\ actor.own
    /\ \E c \in Calls :
         /\ calls[c].session = "S2"
         /\ Finished(c)
         /\ calls[c].op = "getHtml"
         /\ calls[c].actor = BotActor
         /\ calls[c].lbl = ActorHandle

----------------------------------------------------------------------------
(* Rejections *)

\* C35: once the label resolver or the actor resolver of a mention has
\* rejected, its promise stays rejected in its slot and the resolver has run
\* once; no getHtml or getTags call on the node has gone past that await or
\* goes past it later: each of them ends by throwing the rejection.
C35_RejectionStays ==
    /\ [](LabelRejected =>
            /\ resolverCalls.label = 1
            /\ \A c \in Calls :
                 calls[c].op \in {"getHtml", "getTags"} =>
                     /\ calls[c].pc \in {"awaitLabel", "failed"}
                     /\ calls[c].pc = "failed" => calls[c].err = "rejected")
    /\ [](ActorRejected =>
            /\ resolverCalls.actor = 1
            /\ \A c \in Calls :
                 calls[c].op \in {"getHtml", "getTags"} =>
                     /\ calls[c].pc \in {"awaitLabel", "awaitActor", "failed"}
                     /\ calls[c].pc = "failed" => calls[c].err = "rejected")
    /\ [][(LabelRejected => LabelRejected')
            /\ (ActorRejected => ActorRejected')]_vars

\* C35's case: the actor resolver has rejected and three calls were made:
\* one has thrown and was consumed, and the two made since have thrown too.
C35_Witness ==
    /\ ActorRejected
    /\ resolverCalls.actor = 1
    /\ started = 3
    /\ \A c \in Calls : calls[c].pc = "failed" /\ calls[c].err = "rejected"

\* The lookups made so far for handle h.
LookupsOf(sc, h) ==
    IF h = ActorHandle THEN sc.getActor ELSE sc.lookupObject[h]

\* C36: a call of a markdown node that ends by throwing leaves the mapping
\* as it was; as long as no call has completed the mapping is unset and
\* getCachedObjects returns nothing; and a call that finds the mapping unset
\* asks for the document loader and then issues one more lookup for every
\* discovered handle.
C36_RejectionLeavesUnset ==
    /\ []((root = "markdown" /\ mentions.set /\ ~firstDone.set) =>
            /\ ~actors.set
            /\ MarkdownCached = <<>>
            /\ \A c \in Calls :
                 (calls[c].op = "getCachedObjects" /\ calls[c].pc = "done")
                     => calls[c].cached = <<>>)
    /\ [][\A c \in Calls :
            /\ (calls[c].pc # "failed" /\ calls'[c].pc = "failed") =>
                 actors' = actors
            /\ (calls[c].pc = "md" /\ mentions.set /\ ~actors.set
                  /\ calls'[c].pc # "md") =>
                 calls'[c].pc = "mdLoader"
            /\ (calls[c].pc = "mdLoader" /\ calls'[c].pc = "mdLookups") =>
                 \A h \in Range(mentions.list) :
                     LookupsOf(sessionCalls', h)
                         = LookupsOf(sessionCalls, h) + 1]_vars

\* C36's case: on a markdown node that mentions two handles three calls have
\* issued their lookups, the third after one of the first two had thrown
\* and was consumed; no call has completed and the mapping is unset.
C36_Witness ==
    /\ root = "markdown"
    /\ Cardinality(Range(mentions.list)) = 2
    /\ started = 3
    /\ \A h \in Range(mentions.list) : LookupsOf(sessionCalls, h) = 3
    /\ ~firstDone.set
    /\ ~actors.set
    /\ \E c \in Calls : calls[c].pc = "failed" /\ calls[c].err = "rejected"

----------------------------------------------------------------------------
(* SqliteRepository: key pairs, messages and followers in one database    *)
(* behind one synchronous connection. A statement runs to its end when it *)
(* is called; an operation gives way to the others at each await.         *)

MaxOps == 4

\* INSERT OR REPLACE of the row with key x into table f.
Replace(f, x, v) == [y \in DOMAIN f \cup {x} |-> IF y = x THEN v ELSE f[y]]

\* DELETE of the row with key x from table f.
Delete(f, x) == [y \in DOMAIN f \ {x} |-> f[y]]

\* The task goes on to the next step of its operation.
Goto(t, rec) == running' = [running EXCEPT ![t] = rec]

\* A call of operation op begins on an idle task.
Called(t) ==
    /\ running[t].pc = "idle"
    /\ invoked < MaxOps
    /\ invoked' = invoked + 1

\* setKeyPairs up to its first await: BEGIN TRANSACTION, which throws when
\* the connection is inside a transaction already, then DELETE; with no key
\* pair to store, COMMIT.
SetKeyPairs(t, keyPairs) ==
    /\ Called(t)
    /\ IF transaction.open
       THEN /\ Goto(t, [IdleOp EXCEPT !.op = "setKeyPairs", !.pc = "failed",
                           !.keyPairs = keyPairs, !.ret = "SqliteError"])
            /\ UNCHANGED <<db, transaction>>
       ELSE /\ db' = [db EXCEPT !.key_pairs = <<>>]
            /\ IF keyPairs = <<>>
               THEN /\ transaction' = NoTransaction
                    /\ Goto(t, [IdleOp EXCEPT !.op = "setKeyPairs",
                                   !.pc = "done", !.ret = "void"])
               ELSE /\ transaction' = [open |-> TRUE, before |-> db]
                    /\ Goto(t, [IdleOp EXCEPT !.op = "setKeyPairs",
                                   !.pc = "exportPrivate",
                                   !.keyPairs = keyPairs, !.k = 1])
    /\ UNCHANGED <<updated, textVars, mentionVars, markdownVars, callVars,
                   nodeVars>>

\* An exportJwk() of setKeyPairs settles. A rejection (a key that is not
\* extractable) takes the catch block: ROLLBACK and rethrow. After the
\* public key the row is inserted, and after the last row COMMIT follows.
ExportJwk(t, ok) ==
    LET op == running[t] IN
    /\ op.pc \in {"exportPrivate", "exportPublic"}
    /\ IF ~ok
       THEN /\ db' = IF transaction.open THEN transaction.before ELSE db
            /\ transaction' = NoTransaction
            /\ Goto(t, [op EXCEPT !.pc = "failed", !.ret = "TypeError"])
       ELSE IF op.pc = "exportPrivate"
       THEN /\ Goto(t, [op EXCEPT !.pc = "exportPublic"])
            /\ UNCHANGED <<db, transaction>>
       ELSE /\ db' = [db EXCEPT
                        !.key_pairs = Append(@, op.keyPairs[op.k])]
            /\ IF op.k = Len(op.keyPairs)
               THEN /\ transaction' = NoTransaction
                    /\ Goto(t, [op EXCEPT !.pc = "done", !.ret = "void"])
               ELSE /\ Goto(t, [op EXCEPT !.pc = "exportPrivate",
                                          !.k = op.k + 1])
                    /\ UNCHANGED transaction
    /\ UNCHANGED <<updated, invoked, textVars, mentionVars, markdownVars,
                   callVars, nodeVars>>

\* getKeyPairs up to its first await: the rows are read at once; without
\* rows the result is undefined.
GetKeyPairs(t) ==
    /\ Called(t)
    /\ Goto(t, [IdleOp EXCEPT !.op = "getKeyPairs",
                   !.row = db.key_pairs,
                   !.pc = IF db.key_pairs = <<>> THEN "done" ELSE "import",
                   !.ret = IF db.key_pairs = <<>> THEN "undefined"
                           ELSE "none"])
    /\ UNCHANGED <<db, transaction, updated, textVars, mentionVars,
                   markdownVars, callVars, nodeVars>>

\* The importJwk() calls of getKeyPairs settle and the rows read are
\* returned as key pairs.
ImportJwk(t) ==
    /\ running[t].pc = "import"
    /\ Goto(t, [running[t] EXCEPT !.pc = "done", !.ret = "keyPairs"])
    /\ UNCHANGED <<db, transaction, updated, invoked, textVars, mentionVars,
                   markdownVars, callVars, nodeVars>>

\* addMessage from its INSERT on (the await before it reads nothing of the
\* repository): a second row with the same primary key is refused.
AddMessage(t, id) ==
    /\ Called(t)
    /\ IF id \in DOMAIN db.messages
       THEN /\ Goto(t, [IdleOp EXCEPT !.op = "addMessage", !.id = id,
                           !.pc = "failed", !.ret = "SqliteError"])
            /\ UNCHANGED db
       ELSE /\ db' = [db EXCEPT !.messages = Replace(@, id, <<>>)]
            /\ Goto(t, [IdleOp EXCEPT !.op = "addMessage", !.id = id,
                           !.pc = "done", !.ret = "void"])
    /\ UNCHANGED <<transaction, updated, textVars, mentionVars, markdownVars,
                   callVars, nodeVars>>

\* updateMessage up to its first await: the row is read; without a row the
\* result is false. The updater adds its own mark ("u1", "u2") to the
\* activity it is given, or returns undefined.
UpdateMessage(t, id, updater) ==
    /\ Called(t)
    /\ IF id \in DOMAIN db.messages
       THEN Goto(t, [IdleOp EXCEPT !.op = "updateMessage", !.id = id,
                        !.updater = updater, !.row = db.messages[id],
                        !.pc = "updater"])
       ELSE Goto(t, [IdleOp EXCEPT !.op = "updateMessage", !.id = id,
                        !.updater = updater, !.pc = "done",
                        !.ret = "false"])
    /\ UNCHANGED <<db, transaction, updated, textVars, mentionVars,
                   markdownVars, callVars, nodeVars>>

\* The updater of updateMessage has settled on the activity that was read:
\* undefined ends the call with false, anything else is written with
\* UPDATE ... WHERE id = ? and the call ends with true.
Updater(t) ==
    LET op == running[t] IN
    /\ op.pc = "updater"
    /\ IF op.updater = "undefined"
       THEN /\ Goto(t, [op EXCEPT !.pc = "done", !.ret = "false"])
            /\ UNCHANGED <<db, updated>>
       ELSE /\ db' = IF op.id \in DOMAIN db.messages
                     THEN [db EXCEPT !.messages[op.id] =
                                         Append(op.row, op.updater)]
                     ELSE db
            /\ updated' = Append(updated, op.updater)
            /\ Goto(t, [op EXCEPT !.pc = "done", !.ret = "true"])
    /\ UNCHANGED <<transaction, invoked, textVars, mentionVars, markdownVars,
                   callVars, nodeVars>>

\* addFollower: a follower without an id ("noid") is refused; then, from
\* BEGIN TRANSACTION on (the await before it reads nothing of the
\* repository), both rows are put with INSERT OR REPLACE and committed.
AddFollower(t, followRequestId, follower) ==
    /\ Called(t)
    /\ IF follower = "noid"
       THEN /\ Goto(t, [IdleOp EXCEPT !.op = "addFollower",
                           !.request = followRequestId,
                           !.actor = follower,
                           !.pc = "failed", !.ret = "TypeError"])
            /\ UNCHANGED db
       ELSE IF transaction.open
       THEN /\ Goto(t, [IdleOp EXCEPT !.op = "addFollower",
                           !.request = followRequestId,
                           !.actor = follower,
                           !.pc = "failed", !.ret = "SqliteError"])
            /\ UNCHANGED db
       ELSE /\ db' = [db EXCEPT
                        !.followers = @ \cup {follower},
                        !.follow_requests = Replace(@, followRequestId, follower)]
            /\ Goto(t, [IdleOp EXCEPT !.op = "addFollower",
                           !.request = followRequestId,
                           !.actor = follower,
                           !.pc = "done", !.ret = "void"])
    /\ UNCHANGED <<transaction, updated, textVars, mentionVars, markdownVars,
                   callVars, nodeVars>>

\* removeFollower, which has no await before its last statement. Without a
\* follow request of that id for that actor the result is undefined. Else
\* BEGIN TRANSACTION (which throws inside a transaction), the request is
\* deleted, and the follower is deleted unless another follow request still
\* references it: then the foreign key refuses the DELETE, the catch block
\* rolls back and the error is rethrown.
RemoveFollower(t, followRequestId, actorId) ==
    LET call == [IdleOp EXCEPT !.op = "removeFollower",
                               !.request = followRequestId,
                               !.actor = actorId]
        found == /\ followRequestId \in DOMAIN db.follow_requests
                 /\ db.follow_requests[followRequestId] = actorId
                 /\ actorId \in db.followers
        others == {r \in DOMAIN db.follow_requests \ {followRequestId} :
                      db.follow_requests[r] = actorId}
    IN
    /\ Called(t)
    /\ IF ~found
       THEN /\ Goto(t, [call EXCEPT !.pc = "done", !.ret = "undefined"])
            /\ UNCHANGED db
       ELSE IF transaction.open \/ others # {}
       THEN /\ Goto(t, [call EXCEPT !.pc = "failed", !.ret = "SqliteError"])
            /\ UNCHANGED db
       ELSE /\ db' = [db EXCEPT
                        !.follow_requests = Delete(@, followRequestId),
                        !.followers = @ \ {actorId}]
            /\ Goto(t, [call EXCEPT !.pc = "done", !.ret = actorId])
    /\ UNCHANGED <<transaction, updated, textVars, mentionVars, markdownVars,
                   callVars, nodeVars>>

\* The caller has taken the result or the error of the operation.
Consumed(t) ==
    /\ running[t].pc \in {"done", "failed"}
    /\ Goto(t, IdleOp)
    /\ UNCHANGED <<db, transaction, updated, invoked, textVars, mentionVars,
                   markdownVars, callVars, nodeVars>>

RepoInit ==
    /\ TextIdle
    /\ NodeIdle
    /\ RepoIdle
    /\ linkHref = NoHref
    /\ Constructed("repository", DefaultMention, <<>>, DefaultToggles)

RepoNext ==
    \/ \E t \in Tasks, keyPairs \in {<<"k1">>, <<"k2">>, <<"k1", "k2">>,
                                      <<"k2", "k1">>} :
         SetKeyPairs(t, keyPairs)
    \/ \E t \in Tasks, ok \in BOOLEAN : ExportJwk(t, ok)
    \/ \E t \in Tasks : GetKeyPairs(t)
    \/ \E t \in Tasks : ImportJwk(t)
    \/ \E t \in Tasks : AddMessage(t, "m1")
    \/ \E t \in Tasks, updater \in {"u1", "u2", "undefined"} :
         UpdateMessage(t, "m1", updater)
    \/ \E t \in Tasks : Updater(t)
    \/ \E t \in Tasks, r \in {"r1", "r2"}, a \in {"a1", "a2", "noid"} :
         AddFollower(t, r, a)
    \/ \E t \in Tasks, r \in {"r1", "r2"}, a \in {"a1", "a2"} :
         RemoveFollower(t, r, a)
    \/ \E t \in Tasks : Consumed(t)

SpecRepo == RepoInit /\ [][RepoNext]_vars

----------------------------------------------------------------------------
(* The repository's operations against each other *)

\* The tables as they were when the open transaction began, or as they are.
Committed == IF transaction.open THEN transaction.before ELSE db

\* The key lists of the setKeyPairs calls that are under way.
KeyListsUnderWay ==
    {running[t].keyPairs :
        t \in {u \in Tasks :
                  /\ running[u].op = "setKeyPairs"
                  /\ running[u].pc \in {"exportPrivate", "exportPublic"}}}

\* C37: whenever getKeyPairs reads the key pairs, it reads the list that
\* was stored before the setKeyPairs calls under way began, or the complete
\* list of one of those calls; it returns undefined only when one of these
\* lists is empty.
C37_Original ==
    [][\A t \in Tasks :
          (running[t].pc = "idle" /\ running'[t].op = "getKeyPairs") =>
              /\ running'[t].row
                     \in {Committed.key_pairs} \cup KeyListsUnderWay
              /\ running'[t].ret = "undefined" =>
                     <<>> \in {Committed.key_pairs} \cup KeyListsUnderWay]_vars

\* C38: every stored follow request references a stored follower; and
\* removeFollower returns undefined and changes nothing when no follow
\* request of that id is stored for that actor, and else removes the request
\* and the follower and returns the actor.
C38_Original ==
    /\ [](\A r \in DOMAIN db.follow_requests :
             db.follow_requests[r] \in db.followers)
    /\ [][\A t \in Tasks :
            (running[t].pc = "idle" /\ running'[t].op = "removeFollower") =>
                LET r == running'[t].request
                    a == running'[t].actor
                IN  IF /\ r \in DOMAIN db.follow_requests
                       /\ db.follow_requests[r] = a
                    THEN /\ running'[t].pc = "done"
                         /\ running'[t].ret = a
                         /\ r \notin DOMAIN db'.follow_requests
                         /\ a \notin db'.followers
                    ELSE /\ running'[t].pc = "done"
                         /\ running'[t].ret = "undefined"
                         /\ db' = db]_vars

\* How often updater u occurs in the sequence of updaters seq.
Times(seq, u) == Cardinality({k \in 1..Len(seq) : seq[k] = u})

\* C39: when no updateMessage call is under way, the stored activity of a
\* message carries the mark of every updateMessage call that returned true,
\* each once, in some order; and an updateMessage call that returns false
\* leaves the tables as they were.
C39_Original ==
    /\ []((/\ "m1" \in DOMAIN db.messages
           /\ \A t \in Tasks : running[t].pc # "updater") =>
            \A u \in {"u1", "u2"} :
                Times(db.messages["m1"], u) = Times(updated, u))
    /\ [][\A t \in Tasks :
            (/\ running[t].pc # "done"
             /\ running'[t].pc = "done"
             /\ running'[t].op = "updateMessage"
             /\ running'[t].ret = "false") => db' = db]_vars

====
